---------------------------- MODULE Spec2Model ----------------------------
(***************************************************************************)
(* SSHC: the interactive state machine of src/core/app.rs (struct App and  *)
(* its key handlers), with the host record and the search predicate of     *)
(* src/config/ssh_config.rs.                                               *)
(*                                                                         *)
(* Conventions.  A Rust String is a sequence of one-character strings      *)
(* (<<"d","b">> is "db").  Option<T> is a sequence of length at most one:  *)
(* None is <<>> and Some(x) is <<x>>.  Vec indices keep the code's 0-based *)
(* values; At(v, i) reads element i of a Vec.                              *)
(***************************************************************************)
EXTENDS Integers, Sequences, FiniteSets, TLC

(***************************************************************************)
(* Bounds of the model.                                                    *)
(***************************************************************************)
\* the effort of one run: every key press that edits the query or the edit
\* buffer costs one, and so does every key press that opens an add, edit or
\* delete dialog
MaxEffort == 2
\* largest review_scroll at which Up, Down and PageDown are still dispatched
MaxScroll == 1

(***************************************************************************)
(* Strings and options.                                                    *)
(***************************************************************************)
None == <<>>
Some(x) == <<x>>
IsSome(o) == o # <<>>
Unwrap(o) == o[1]
\* Option<String>::unwrap_or_default
UnwrapOrDefault(o) == IF IsSome(o) THEN o[1] ELSE <<>>

At(v, i) == v[i + 1]
Indices(v) == 0 .. (Len(v) - 1)

\* the characters of the model in code-point order (u8 order of str::cmp)
AsciiOrder ==
    <<" ", "/", "A", "B", "C", "D", "E", "F", "G", "H", "I", "J", "K", "L", "M",
      "N", "O", "P", "Q", "R", "S", "T", "U", "V", "W", "X", "Y", "Z",
      "a", "b", "c", "d", "e", "f", "g", "h", "i", "j", "k", "l", "m",
      "n", "o", "p", "q", "r", "s", "t", "u", "v", "w", "x", "y", "z">>

Code(c) == CHOOSE i \in 1 .. Len(AsciiOrder) : AsciiOrder[i] = c

IsUpper(c) == Code(c) >= Code("A") /\ Code(c) <= Code("Z")

\* char::to_lowercase on the model's characters
CharToLower(c) == IF IsUpper(c) THEN AsciiOrder[Code(c) - Code("A") + Code("a")] ELSE c

\* str::to_lowercase
ToLowercase(s) == [i \in 1 .. Len(s) |-> CharToLower(s[i])]

\* str::contains
Contains(s, q) ==
    \E off \in 0 .. (Len(s) - Len(q)) : \A j \in 1 .. Len(q) : s[off + j] = q[j]

\* Ord for String: lexicographic by code point, a proper prefix first
StrLess(s, t) ==
    \E k \in 1 .. (Len(t)) :
        /\ \A j \in 1 .. (k - 1) : j <= Len(s) /\ s[j] = t[j]
        /\ k - 1 <= Len(s)
        /\ \/ Len(s) = k - 1
           \/ Len(s) >= k /\ Code(s[k]) < Code(t[k])

StrLeq(s, t) == s = t \/ StrLess(s, t)

IsWhitespace(c) == c = " "

RECURSIVE TrimStart(_)
TrimStart(s) ==
    IF s # <<>> /\ IsWhitespace(Head(s)) THEN TrimStart(Tail(s)) ELSE s

RECURSIVE TrimEnd(_)
TrimEnd(s) ==
    IF s # <<>> /\ IsWhitespace(s[Len(s)]) THEN TrimEnd(SubSeq(s, 1, Len(s) - 1)) ELSE s

\* str::trim
Trim(s) == TrimEnd(TrimStart(s))

\* String::push and String::pop
Push(s, c) == Append(s, c)
Pop(s) == IF s = <<>> THEN s ELSE SubSeq(s, 1, Len(s) - 1)

\* Vec::remove(i): the elements after i shift left
VecRemove(v, i) == SubSeq(v, 1, i) \o SubSeq(v, i + 2, Len(v))
\* Vec::insert(i, x)
VecInsert(v, i, x) == SubSeq(v, 1, i) \o <<x>> \o SubSeq(v, i + 1, Len(v))

(***************************************************************************)
(* SshHost (config/ssh_config.rs).                                         *)
(***************************************************************************)
SshHost_new(name) ==
    [name |-> name, hostname |-> None, user |-> None, port |-> None,
     identity_file |-> None, other_options |-> {}, folder |-> None,
     display_name |-> None, description |-> None, visible |-> TRUE]

\* the display name taken to be the name, whatever display_name holds
get_display_name_ignoring_alias(h) == h.name

get_display_name(h) == IF IsSome(h.display_name) THEN Unwrap(h.display_name) ELSE h.name

OptContains(o, q) == IsSome(o) /\ Contains(ToLowercase(Unwrap(o)), q)

\* a search that looks at the name only
matches_search_by_name(h, query) == Contains(ToLowercase(h.name), ToLowercase(query))

matches_search(h, query) ==
    LET q == ToLowercase(query) IN
        \/ Contains(ToLowercase(h.name), q)
        \/ OptContains(h.hostname, q)
        \/ OptContains(h.user, q)
        \/ OptContains(h.display_name, q)
        \/ OptContains(h.description, q)
        \/ OptContains(h.folder, q)


(***************************************************************************)
(* The configuration file (config/ssh_config.rs).  The text of the file is *)
(* a sequence of lines, each a String: write_ssh_config ends every line it *)
(* formats with a newline and parse_ssh_config reads content.lines().      *)
(***************************************************************************)
\* HashMap<String, String> as a set of <<key, value>> pairs
MapInsert(m, k, v) == {p \in m : p[1] # k} \cup {<<k, v>>}
MapGet(m, k) == IF \E p \in m : p[1] = k THEN Some((CHOOSE p \in m : p[1] = k)[2]) ELSE None
MapRemove(m, k) == {p \in m : p[1] # k}

\* char::to_uppercase on the model's characters
CharToUpper(c) ==
    IF Code(c) >= Code("a") /\ Code(c) <= Code("z")
    THEN AsciiOrder[Code(c) - Code("a") + Code("A")] ELSE c

\* str::starts_with
StartsWith(s, prefix) == Len(s) >= Len(prefix) /\ SubSeq(s, 1, Len(prefix)) = prefix

\* str::find(c): the index (0-based) of the first c, if any
Find(s, c) ==
    IF \E i \in 1 .. Len(s) : s[i] = c
    THEN Some((CHOOSE i \in 1 .. Len(s) : s[i] = c /\ \A j \in 1 .. (i - 1) : s[j] # c) - 1)
    ELSE None

\* line.splitn(2, char::is_whitespace): the line cut at its first whitespace
Splitn2(line) ==
    IF \E i \in 1 .. Len(line) : IsWhitespace(line[i])
    THEN LET i == CHOOSE i \in 1 .. Len(line) :
                     IsWhitespace(line[i]) /\ \A j \in 1 .. (i - 1) : ~IsWhitespace(line[j])
         IN <<SubSeq(line, 1, i - 1), SubSeq(line, i + 1, Len(line))>>
    ELSE <<line>>

\* the lines write_ssh_config formats for the metadata of one host
MetadataLines(host) ==
    (IF IsSome(host.folder) THEN <<<<"#", " ", "@", "f", "o", "l", "d", "e", "r", ":", " ">> \o Unwrap(host.folder)>> ELSE <<>>)
    \o (IF IsSome(host.display_name)
        THEN <<<<"#", " ", "@", "n", "a", "m", "e", ":", " ">> \o Unwrap(host.display_name)>> ELSE <<>>)
    \o (IF IsSome(host.description)
        THEN <<<<"#", " ", "@", "d", "e", "s", "c", "r", "i", "p", "t", "i", "o", "n", ":", " ">> \o Unwrap(host.description)>> ELSE <<>>)
    \o (IF ~host.visible THEN <<<<"#", " ", "@", "v", "i", "s", "i", "b", "l", "e", ":", " ", "f", "a", "l", "s", "e">>>> ELSE <<>>)

\* the lines for Host and the four known directives
DirectiveLines(host) ==
    <<<<"H", "o", "s", "t", " ">> \o host.name>>
    \o (IF IsSome(host.hostname)
        THEN <<<<" ", " ", " ", " ", "H", "o", "s", "t", "N", "a", "m", "e", " ">> \o Unwrap(host.hostname)>> ELSE <<>>)
    \o (IF IsSome(host.user) THEN <<<<" ", " ", " ", " ", "U", "s", "e", "r", " ">> \o Unwrap(host.user)>> ELSE <<>>)
    \o (IF IsSome(host.port) THEN <<<<" ", " ", " ", " ", "P", "o", "r", "t", " ">> \o Unwrap(host.port)>> ELSE <<>>)
    \o (IF IsSome(host.identity_file)
        THEN <<<<" ", " ", " ", " ", "I", "d", "e", "n", "t", "i", "t", "y", "F", "i", "l", "e", " ">> \o Unwrap(host.identity_file)>> ELSE <<>>)

\* the lines for other_options, in one of the orders the HashMap may iterate
RECURSIVE OptionLines(_)
OptionLines(options) ==
    IF options = {} THEN <<>>
    ELSE LET p == CHOOSE p \in options : TRUE
             key == p[1]
         IN <<<<" ", " ", " ", " ">> \o <<CharToUpper(Head(key))>> \o Tail(key)
               \o <<" ">> \o p[2]>>
            \o OptionLines(options \ {p})

\* the text write_ssh_config writes for hosts: each host's lines and a blank one
RECURSIVE write_ssh_config(_)
write_ssh_config(hs) ==
    IF hs = <<>> THEN <<>>
    ELSE MetadataLines(Head(hs)) \o DirectiveLines(Head(hs))
         \o OptionLines(Head(hs).other_options) \o <<<<>>>>
         \o write_ssh_config(Tail(hs))

\* `if let Some(x) = pending_metadata.remove(key) { set }` on the new host
WithMetadata(new_host, pending_metadata) ==
    LET folder == MapGet(pending_metadata, <<"f", "o", "l", "d", "e", "r">>)
        name == MapGet(pending_metadata, <<"n", "a", "m", "e">>)
        description == MapGet(pending_metadata, <<"d", "e", "s", "c", "r", "i", "p", "t", "i", "o", "n">>)
        visible == MapGet(pending_metadata, <<"v", "i", "s", "i", "b", "l", "e">>)
    IN [new_host EXCEPT
           !.folder = IF IsSome(folder) THEN folder ELSE @,
           !.display_name = IF IsSome(name) THEN name ELSE @,
           !.description = IF IsSome(description) THEN description ELSE @,
           !.visible = IF IsSome(visible)
                       THEN ToLowercase(Unwrap(visible)) # <<"f", "a", "l", "s", "e">> ELSE @]

\* one `# @key: value` comment line (already trimmed)
ParseMetadata(st, line) ==
    IF StartsWith(line, <<"#", " ", "@">>)
    THEN LET meta_line == Trim(SubSeq(line, 4, Len(line)))
             colon_pos == Find(meta_line, ":")
         IN IF IsSome(colon_pos)
            THEN [st EXCEPT !.pending_metadata =
                     MapInsert(@, Trim(SubSeq(meta_line, 1, Unwrap(colon_pos))),
                               Trim(SubSeq(meta_line, Unwrap(colon_pos) + 2, Len(meta_line))))]
            ELSE st
    ELSE st

\* one directive line (already trimmed): the match on the lower-cased key
ParseDirective(st, line) ==
    LET parts == Splitn2(line)
        key == ToLowercase(parts[1])
        value == IF Len(parts) > 1 THEN Trim(parts[2]) ELSE <<>>
        known == [k \in {<<"h", "o", "s", "t", "n", "a", "m", "e">>, <<"u", "s", "e", "r">>, <<"p", "o", "r", "t">>, <<"i", "d", "e", "n", "t", "i", "t", "y", "f", "i", "l", "e">>} |->
                    CASE k = <<"h", "o", "s", "t", "n", "a", "m", "e">> -> "hostname"
                      [] k = <<"u", "s", "e", "r">> -> "user"
                      [] k = <<"p", "o", "r", "t">> -> "port"
                      [] k = <<"i", "d", "e", "n", "t", "i", "t", "y", "f", "i", "l", "e">> -> "identity_file"]
    IN IF key = <<"h", "o", "s", "t">>
       THEN [hosts |-> IF IsSome(st.current_host)
                       THEN Append(st.hosts, Unwrap(st.current_host)) ELSE st.hosts,
             current_host |-> Some(WithMetadata(SshHost_new(value), st.pending_metadata)),
             pending_metadata |-> {}]
       ELSE IF ~IsSome(st.current_host) THEN st
       ELSE IF key \in DOMAIN known
       THEN IF value # <<>>
            THEN [st EXCEPT !.current_host[1][known[key]] = Some(value)]
            ELSE st
       ELSE [st EXCEPT !.current_host[1].other_options = MapInsert(@, key, value)]

\* the body of `for line in content.lines()`
ParseLine(st, raw) ==
    LET line == Trim(raw) IN
    IF line = <<>> THEN st
    ELSE IF Head(line) = "#" THEN ParseMetadata(st, line)
    ELSE ParseDirective(st, line)

RECURSIVE ParseLines(_, _)
ParseLines(st, lines) ==
    IF lines = <<>> THEN st ELSE ParseLines(ParseLine(st, Head(lines)), Tail(lines))

\* parse_ssh_config on the text of an existing, readable file
parse_ssh_config(content) ==
    LET st == ParseLines([hosts |-> <<>>, current_host |-> None, pending_metadata |-> {}],
                         content)
    IN IF IsSome(st.current_host)
       THEN Append(st.hosts, Unwrap(st.current_host)) ELSE st.hosts


(***************************************************************************)
(* The App struct (core/app.rs) as a record `a`; every method below is an  *)
(* operator from App records to App records.  Two further fields carry     *)
(* what one handle_event call hands back to its caller: `result` (Ok or    *)
(* the SshcError variant) and `calls` (the external calls it made, in      *)
(* order).                                                                 *)
(***************************************************************************)
FolderItem(name, expanded, children) ==
    [kind |-> "Folder", name |-> name, expanded |-> expanded,
     children_indices |-> children]
HostItem(i) == [kind |-> "Host", host_index |-> i]

\* self.hosts.get(i).map(|h| h.get_display_name()).unwrap_or_default()
DisplayNameAt(hs, i) == IF i < Len(hs) THEN get_display_name(At(hs, i)) ELSE <<>>

\* one step of a stable insertion: x goes behind every element not greater
RECURSIVE InsertByName(_, _, _)
InsertByName(hs, sorted, x) ==
    IF sorted = <<>> THEN <<x>>
    ELSE IF StrLess(DisplayNameAt(hs, x), DisplayNameAt(hs, Head(sorted)))
         THEN <<x>> \o sorted
         ELSE <<Head(sorted)>> \o InsertByName(hs, Tail(sorted), x)

\* slice::sort_by on host indices, comparing display names (stable)
RECURSIVE SortByDisplayName(_, _)
SortByDisplayName(hs, idx) ==
    IF idx = <<>> THEN <<>>
    ELSE InsertByName(hs, SortByDisplayName(hs, SubSeq(idx, 1, Len(idx) - 1)),
                      idx[Len(idx)])

\* Vec<String>::sort of a set of distinct strings
RECURSIVE SortStrings(_)
SortStrings(S) ==
    IF S = {} THEN <<>>
    ELSE LET m == CHOOSE x \in S : \A y \in S : StrLeq(x, y)
         IN <<m>> \o SortStrings(S \ {m})

\* a set of indices as a Vec in ascending order: what a filtered enumerate() yields
RECURSIVE Ascending(_)
Ascending(S) ==
    IF S = {} THEN <<>>
    ELSE LET m == CHOOSE x \in S : \A y \in S : x <= y
         IN <<m>> \o Ascending(S \ {m})

HostRows(idx) == [j \in 1 .. Len(idx) |-> HostItem(idx[j])]

\* rebuild_tree's folder_groups entry for one key (None or Some(folder))
GroupOf(hs, key) ==
    Ascending({i \in Indices(hs) : At(hs, i).visible /\ At(hs, i).folder = key})

RECURSIVE FolderRows(_, _)
FolderRows(hs, names) ==
    IF names = <<>> THEN <<>>
    ELSE LET host_indices == SortByDisplayName(hs, GroupOf(hs, Some(Head(names))))
         IN <<FolderItem(Head(names), TRUE, host_indices)>>
            \o HostRows(host_indices)
            \o FolderRows(hs, Tail(names))

TreeOf(hs) ==
    LET folder_names ==
            SortStrings({Unwrap(At(hs, i).folder) :
                            i \in {j \in Indices(hs) :
                                     At(hs, j).visible /\ IsSome(At(hs, j).folder)}})
        root_hosts == SortByDisplayName(hs, GroupOf(hs, None))
    IN FolderRows(hs, folder_names) \o HostRows(root_hosts)

rebuild_tree(a) == [a EXCEPT !.tree_items = TreeOf(a.hosts)]

SelectFirst(a) ==
    [a EXCEPT !.selected = IF a.tree_items # <<>> THEN Some(0) ELSE None]

filter_hosts(a) ==
    IF a.search_query = <<>>
    THEN SelectFirst(rebuild_tree(
             [a EXCEPT !.filtered_hosts = [j \in 1 .. Len(a.hosts) |-> j - 1]]))
    ELSE LET matching == Ascending({i \in Indices(a.hosts) :
                                      matches_search(At(a.hosts, i), a.search_query)})
         IN SelectFirst([a EXCEPT !.filtered_hosts = matching,
                                  !.tree_items = HostRows(matching)])

\* next without the wrap-around at the last row
next_running_past_end(a) ==
    IF a.tree_items = <<>> THEN a
    ELSE [a EXCEPT !.selected = Some(IF IsSome(a.selected) THEN Unwrap(a.selected) + 1 ELSE 0)]

next(a) ==
    IF a.tree_items = <<>> THEN a
    ELSE LET i == IF IsSome(a.selected)
                  THEN (IF Unwrap(a.selected) >= Len(a.tree_items) - 1
                        THEN 0 ELSE Unwrap(a.selected) + 1)
                  ELSE 0
         IN [a EXCEPT !.selected = Some(i)]

previous(a) ==
    IF a.tree_items = <<>> THEN a
    ELSE LET i == IF IsSome(a.selected)
                  THEN (IF Unwrap(a.selected) = 0
                        THEN Len(a.tree_items) - 1 ELSE Unwrap(a.selected) - 1)
                  ELSE 0
         IN [a EXCEPT !.selected = Some(i)]

\* the for loop of the expand branch: insert children[i] at folder_index+1+i
RECURSIVE InsertChildren(_, _, _, _)
InsertChildren(items, folder_index, children, i) ==
    IF i >= Len(children) THEN items
    ELSE InsertChildren(VecInsert(items, folder_index + 1 + i, HostItem(At(children, i))),
                        folder_index, children, i + 1)

\* the for loop of the collapse branch: remove the row behind the folder
RECURSIVE RemoveChildren(_, _, _)
RemoveChildren(items, folder_index, count) ==
    IF count = 0 THEN items
    ELSE RemoveChildren(IF folder_index + 1 < Len(items)
                        THEN VecRemove(items, folder_index + 1) ELSE items,
                        folder_index, count - 1)

\* toggle_folder_expanded that, collapsing, flips the flag and leaves the rows
toggle_folder_expanded_keeping_rows(a, folder_index) ==
    IF folder_index < Len(a.tree_items) /\ At(a.tree_items, folder_index).kind = "Folder"
    THEN LET f == At(a.tree_items, folder_index)
             expanded == ~f.expanded
             flipped == [a.tree_items EXCEPT ![folder_index + 1].expanded = expanded]
         IN IF expanded
            THEN [a EXCEPT !.tree_items =
                     InsertChildren(flipped, folder_index,
                                    SortByDisplayName(a.hosts, f.children_indices), 0)]
            ELSE [a EXCEPT !.tree_items = flipped]
    ELSE a

\* toggle_folder_expanded that, expanding, inserts the children behind the
\* row that follows the folder
toggle_folder_expanded_one_row_late(a, folder_index) ==
    IF folder_index < Len(a.tree_items) /\ At(a.tree_items, folder_index).kind = "Folder"
    THEN LET f == At(a.tree_items, folder_index)
             expanded == ~f.expanded
             flipped == [a.tree_items EXCEPT ![folder_index + 1].expanded = expanded]
         IN IF expanded
            THEN [a EXCEPT !.tree_items =
                     IF folder_index + 1 < Len(flipped)
                     THEN InsertChildren(flipped, folder_index + 1,
                                         SortByDisplayName(a.hosts, f.children_indices), 0)
                     ELSE InsertChildren(flipped, folder_index,
                                         SortByDisplayName(a.hosts, f.children_indices), 0)]
            ELSE [a EXCEPT !.tree_items =
                     RemoveChildren(flipped, folder_index, Len(f.children_indices))]
    ELSE a

toggle_folder_expanded(a, folder_index) ==
    IF folder_index < Len(a.tree_items) /\ At(a.tree_items, folder_index).kind = "Folder"
    THEN LET f == At(a.tree_items, folder_index)
             expanded == ~f.expanded
             flipped == [a.tree_items EXCEPT ![folder_index + 1].expanded = expanded]
         IN IF expanded
            THEN [a EXCEPT !.tree_items =
                     InsertChildren(flipped, folder_index,
                                    SortByDisplayName(a.hosts, f.children_indices), 0)]
            ELSE [a EXCEPT !.tree_items =
                     RemoveChildren(flipped, folder_index, Len(f.children_indices))]
    ELSE a


(***************************************************************************)
(* Keys (crossterm KeyCode) and what a handler reports.                    *)
(***************************************************************************)
Key(code) == [code |-> code, ch |-> ""]
Char(c) == [code |-> "Char", ch |-> c]
IsChar(k, cs) == k.code = "Char" /\ k.ch \in cs

Call(fn) == [call |-> fn, with |-> <<>>]
CallWith(fn, arg) == [call |-> fn, with |-> arg]

Called(a, c) == [a EXCEPT !.calls = Append(@, c)]
Failed(a, err) == [a EXCEPT !.result = err]

(***************************************************************************)
(* EditingHostData and the edit session.                                   *)
(***************************************************************************)
\* the text fields by current_field 0..7; field 8 is `visible`
TextFields ==
    <<"name", "hostname", "user", "port", "identity_file", "folder",
      "display_name", "description">>

EditingData(name, hostname, user, port, identity_file, folder, display_name, description, visible) ==
    [name |-> name, hostname |-> hostname, user |-> user, port |-> port,
     identity_file |-> identity_file, folder |-> folder,
     display_name |-> display_name, description |-> description,
     visible |-> visible, current_field |-> 0,
     original_name |-> name, original_hostname |-> hostname,
     original_user |-> user, original_port |-> port,
     original_identity_file |-> identity_file, original_folder |-> folder,
     original_display_name |-> display_name,
     original_description |-> description, original_visible |-> visible]

start_adding_host(a) ==
    [a EXCEPT !.editing_host =
                  Some(EditingData(<<>>, <<>>, <<>>, <<>>, <<>>, <<>>, <<>>, <<>>, TRUE)),
              !.editing_host_index = None,
              !.current_edit_change_index = None,
              !.mode = "EditingHost"]

\* the selected row when it is a Host row whose index is in hosts, else None
SelectedHostIndex(a) ==
    IF /\ IsSome(a.selected)
       /\ Unwrap(a.selected) < Len(a.tree_items)
       /\ At(a.tree_items, Unwrap(a.selected)).kind = "Host"
    THEN Some(At(a.tree_items, Unwrap(a.selected)).host_index)
    ELSE None

start_editing_selected_host(a) ==
    LET sel == SelectedHostIndex(a) IN
    IF IsSome(sel) /\ Unwrap(sel) < Len(a.hosts)
    THEN LET host == At(a.hosts, Unwrap(sel)) IN
         [a EXCEPT !.editing_host =
                       Some(EditingData(host.name,
                                        UnwrapOrDefault(host.hostname),
                                        UnwrapOrDefault(host.user),
                                        UnwrapOrDefault(host.port),
                                        UnwrapOrDefault(host.identity_file),
                                        UnwrapOrDefault(host.folder),
                                        UnwrapOrDefault(host.display_name),
                                        UnwrapOrDefault(host.description),
                                        host.visible)),
                   !.editing_host_index = sel,
                   !.current_edit_change_index = None,
                   !.mode = "EditingHost"]
    ELSE a

\* start_deleting_selected_host that takes any selected row
start_deleting_selected_row(a) ==
    IF IsSome(a.selected)
    THEN [a EXCEPT !.delete_target = a.selected, !.mode = "ConfirmDelete"]
    ELSE a

start_deleting_selected_host(a) ==
    LET sel == SelectedHostIndex(a) IN
    IF IsSome(sel)
    THEN [a EXCEPT !.delete_target = sel, !.mode = "ConfirmDelete"]
    ELSE a

\* has_edit_changes that compares the eight texts and not `visible`
has_edit_changes_ignoring_visible(a) ==
    /\ IsSome(a.editing_host)
    /\ LET e == Unwrap(a.editing_host) IN
          \/ e.name # e.original_name
          \/ e.hostname # e.original_hostname
          \/ e.user # e.original_user
          \/ e.port # e.original_port
          \/ e.identity_file # e.original_identity_file
          \/ e.folder # e.original_folder
          \/ e.display_name # e.original_display_name
          \/ e.description # e.original_description

has_edit_changes(a) ==
    /\ IsSome(a.editing_host)
    /\ LET e == Unwrap(a.editing_host) IN
          \/ e.name # e.original_name
          \/ e.hostname # e.original_hostname
          \/ e.user # e.original_user
          \/ e.port # e.original_port
          \/ e.identity_file # e.original_identity_file
          \/ e.folder # e.original_folder
          \/ e.display_name # e.original_display_name
          \/ e.description # e.original_description
          \/ e.visible # e.original_visible

\* `if !text.is_empty() { field = Some(text.clone()) }`
NonEmpty(text) == IF text # <<>> THEN Some(text) ELSE None

\* the host built from the buffer with every text wrapped in Some, empty or not
HostFromBuffer_keeping_empty(e) ==
    [SshHost_new(e.name) EXCEPT
        !.hostname = Some(e.hostname),
        !.user = Some(e.user),
        !.port = Some(e.port),
        !.identity_file = Some(e.identity_file),
        !.folder = Some(e.folder),
        !.display_name = Some(e.display_name),
        !.description = Some(e.description),
        !.visible = e.visible]

\* the SshHost save_edited_host builds from the buffer
HostFromBuffer(e) ==
    [SshHost_new(e.name) EXCEPT
        !.hostname = NonEmpty(e.hostname),
        !.user = NonEmpty(e.user),
        !.port = NonEmpty(e.port),
        !.identity_file = NonEmpty(e.identity_file),
        !.folder = NonEmpty(e.folder),
        !.display_name = NonEmpty(e.display_name),
        !.description = NonEmpty(e.description),
        !.visible = e.visible]

Added(h) == [type |-> "Added", host |-> h]
Modified(old, new) == [type |-> "Modified", old |-> old, new |-> new]
Deleted(h) == [type |-> "Deleted", host |-> h]

\* the tail of save_edited_host, which runs on every path that does not return
CloseEditSession(a) ==
    [a EXCEPT !.editing_host = None,
              !.editing_host_index = None,
              !.current_edit_change_index = None,
              !.mode = "ConfigManagement"]

\* the edit branch capturing the old host only after it was overwritten
StageModified_capturing_late(a, host_idx, new_host) ==
    IF host_idx < Len(a.hosts)
    THEN [a EXCEPT !.pending_changes = Append(@, Modified(new_host, new_host)),
                   !.current_edit_change_index = Some(Len(a.pending_changes)),
                   !.hosts = [@ EXCEPT ![host_idx + 1] = new_host]]
    ELSE a

\* the branch of save_edited_host for an existing host (editing_host_index set)
StageModified(a, host_idx, new_host) ==
    IF host_idx < Len(a.hosts)
    THEN [a EXCEPT !.pending_changes =
                       Append(@, Modified(At(a.hosts, host_idx), new_host)),
                   !.current_edit_change_index = Some(Len(a.pending_changes)),
                   !.hosts = [@ EXCEPT ![host_idx + 1] = new_host]]
    ELSE a

\* the new-host branch that appends the host and logs nothing
StageAdded_unlogged(a, new_host) ==
    [a EXCEPT !.hosts = Append(@, new_host)]

\* the branch of save_edited_host for a new host
StageAdded(a, new_host) ==
    [a EXCEPT !.pending_changes = Append(@, Added(new_host)),
              !.current_edit_change_index = Some(Len(a.pending_changes)),
              !.hosts = Append(@, new_host)]

\* save_edited_host without the test of the name
save_edited_host_unvalidated(a) ==
    IF IsSome(a.editing_host)
    THEN LET new_host == HostFromBuffer(Unwrap(a.editing_host))
             staged == IF IsSome(a.editing_host_index)
                       THEN StageModified(a, Unwrap(a.editing_host_index), new_host)
                       ELSE StageAdded(a, new_host)
         IN CloseEditSession(filter_hosts(staged))
    ELSE CloseEditSession(a)

save_edited_host(a) ==
    IF IsSome(a.editing_host)
    THEN LET e == Unwrap(a.editing_host) IN
         IF Trim(e.name) = <<>>
         THEN a
         ELSE LET new_host == HostFromBuffer(e)
                  staged == IF IsSome(a.editing_host_index)
                            THEN StageModified(a, Unwrap(a.editing_host_index), new_host)
                            ELSE StageAdded(a, new_host)
              IN CloseEditSession(filter_hosts(staged))
    ELSE CloseEditSession(a)

\* apply_changes that clears pending_changes before it writes
apply_changes_clearing_first(a, write_ok) ==
    LET w == Called([a EXCEPT !.pending_changes = <<>>],
                    CallWith("write_ssh_config", a.hosts)) IN
    IF write_ok THEN [w EXCEPT !.original_hosts = a.hosts] ELSE Failed(w, "Config")

\* apply_changes that leaves the snapshot alone
apply_changes_without_snapshot(a, write_ok) ==
    LET w == Called(a, CallWith("write_ssh_config", a.hosts)) IN
    IF write_ok THEN [w EXCEPT !.pending_changes = <<>>] ELSE Failed(w, "Config")

\* write_ok: whether write_ssh_config succeeds this time
apply_changes(a, write_ok) ==
    LET w == Called(a, CallWith("write_ssh_config", a.hosts)) IN
    IF write_ok
    THEN [w EXCEPT !.original_hosts = a.hosts, !.pending_changes = <<>>]
    ELSE Failed(w, "Config")

\* discard_changes that takes the staged hosts as the new snapshot
discard_changes_adopting_hosts(a) ==
    filter_hosts([a EXCEPT !.original_hosts = a.hosts, !.pending_changes = <<>>])

\* discard_changes that leaves hosts alone
discard_changes_keeping_hosts(a) ==
    filter_hosts([a EXCEPT !.pending_changes = <<>>])

discard_changes(a) ==
    filter_hosts([a EXCEPT !.hosts = a.original_hosts, !.pending_changes = <<>>])

\* discard_current_edit that takes the last entry of the log for the edit's own
discard_current_edit_dropping_last_entry(a) ==
    IF a.pending_changes # <<>>
    THEN filter_hosts([a EXCEPT !.pending_changes = Pop(@)])
    ELSE a

discard_current_edit(a) ==
    IF /\ IsSome(a.current_edit_change_index)
       /\ Unwrap(a.current_edit_change_index) < Len(a.pending_changes)
    THEN LET change_index == Unwrap(a.current_edit_change_index)
             change == At(a.pending_changes, change_index)
             reverted ==
                 CASE change.type = "Added" ->
                        IF IsSome(a.editing_host_index) THEN a.hosts ELSE Pop(a.hosts)
                   [] change.type = "Modified" ->
                        IF IsSome(a.editing_host_index)
                        THEN [a.hosts EXCEPT ![Unwrap(a.editing_host_index) + 1] = change.old]
                        ELSE a.hosts
                   [] change.type = "Deleted" -> a.hosts
         IN filter_hosts([a EXCEPT !.hosts = reverted,
                                   !.pending_changes = VecRemove(@, change_index)])
    ELSE a


(***************************************************************************)
(* Key handlers.  `io` holds the outcome of each external call the handler *)
(* may make: write_ok, suspend_ok, resume_ok, clear_ok (BOOLEAN) and spawn *)
(* (what Command::status returned).                                        *)
(***************************************************************************)
\* connect_to_selected leaving the search behind once the session is over
connect_to_selected_resetting_search(a, io) ==
    LET sel == SelectedHostIndex(a) IN
    IF IsSome(sel) /\ Unwrap(sel) < Len(a.hosts)
    THEN LET host == At(a.hosts, Unwrap(sel))
             s1 == Called(a, Call("suspend"))
             s2 == Called(s1, CallWith("ssh", host.name))
             s3 == Called(s2, Call("resume"))
             s4 == filter_hosts([Called(s3, Call("clear")) EXCEPT !.search_query = <<>>])
         IN IF ~io.suspend_ok THEN Failed(s1, "Terminal")
            ELSE IF ~io.resume_ok THEN Failed(s3, "Terminal")
            ELSE IF io.spawn = "SpawnErr" THEN Failed(s3, "Ssh")
            ELSE IF ~io.clear_ok THEN Failed(s4, "Terminal")
            ELSE s4
    ELSE a

\* connect_to_selected with the spawn error returned before terminal.resume()
connect_to_selected_returning_early(a, io) ==
    LET sel == SelectedHostIndex(a) IN
    IF IsSome(sel) /\ Unwrap(sel) < Len(a.hosts)
    THEN LET host == At(a.hosts, Unwrap(sel))
             s1 == Called(a, Call("suspend"))
             s2 == Called(s1, CallWith("ssh", host.name))
             s3 == Called(s2, Call("resume"))
             s4 == Called(s3, Call("clear"))
         IN IF ~io.suspend_ok THEN Failed(s1, "Terminal")
            ELSE IF io.spawn = "SpawnErr" THEN Failed(s2, "Ssh")
            ELSE IF ~io.resume_ok THEN Failed(s3, "Terminal")
            ELSE IF ~io.clear_ok THEN Failed(s4, "Terminal")
            ELSE s4
    ELSE a

connect_to_selected(a, io) ==
    LET sel == SelectedHostIndex(a) IN
    IF IsSome(sel) /\ Unwrap(sel) < Len(a.hosts)
    THEN LET host == At(a.hosts, Unwrap(sel))
             s1 == Called(a, Call("suspend"))
             s2 == Called(s1, CallWith("ssh", host.name))
             s3 == Called(s2, Call("resume"))
             s4 == Called(s3, Call("clear"))
         IN IF ~io.suspend_ok THEN Failed(s1, "Terminal")
            ELSE IF ~io.resume_ok THEN Failed(s3, "Terminal")
            ELSE IF io.spawn = "SpawnErr" THEN Failed(s3, "Ssh")
            ELSE IF ~io.clear_ok THEN Failed(s4, "Terminal")
            ELSE s4
    ELSE a

\* Enter (and Space in Normal): toggle a Folder row, connect on a Host row
ActivateSelected(a, io) ==
    IF IsSome(a.selected) /\ Unwrap(a.selected) < Len(a.tree_items)
    THEN IF At(a.tree_items, Unwrap(a.selected)).kind = "Folder"
         THEN toggle_folder_expanded(a, Unwrap(a.selected))
         ELSE connect_to_selected(a, io)
    ELSE a

\* handle_search_input whose Esc drops the query and shows every host again
handle_search_input_clearing_on_esc(a, k, io) ==
    CASE k.code = "Char" ->
            filter_hosts([a EXCEPT !.search_query = Push(@, k.ch)])
      [] k.code = "Backspace" ->
            filter_hosts([a EXCEPT !.search_query = Pop(@)])
      [] k.code = "Enter" -> ActivateSelected([a EXCEPT !.mode = "Normal"], io)
      [] k.code = "Esc" -> filter_hosts([a EXCEPT !.mode = "Normal", !.search_query = <<>>])
      [] OTHER -> a

\* handle_search_input whose Backspace shortens the query and keeps the old view
handle_search_input_stale_backspace(a, k, io) ==
    CASE k.code = "Char" ->
            filter_hosts([a EXCEPT !.search_query = Push(@, k.ch)])
      [] k.code = "Backspace" -> [a EXCEPT !.search_query = Pop(@)]
      [] k.code = "Enter" -> ActivateSelected([a EXCEPT !.mode = "Normal"], io)
      [] k.code = "Esc" -> [a EXCEPT !.mode = "Normal"]
      [] OTHER -> a

handle_search_input(a, k, io) ==
    CASE k.code = "Char" ->
            filter_hosts([a EXCEPT !.search_query = Push(@, k.ch)])
      [] k.code = "Backspace" ->
            filter_hosts([a EXCEPT !.search_query = Pop(@)])
      [] k.code = "Enter" -> ActivateSelected([a EXCEPT !.mode = "Normal"], io)
      [] k.code = "Esc" -> [a EXCEPT !.mode = "Normal"]
      [] OTHER -> a

handle_normal_input(a, k, io) ==
    CASE IsChar(k, {"q"}) -> [a EXCEPT !.should_quit = TRUE]
      [] IsChar(k, {"/"}) -> [a EXCEPT !.mode = "Search"]
      [] IsChar(k, {"e"}) -> [a EXCEPT !.mode = "ConfigManagement"]
      [] IsChar(k, {"v"}) -> [a EXCEPT !.mode = "ShowVersion"]
      [] k.code = "Down" -> next(a)
      [] k.code = "Up" -> previous(a)
      [] k.code = "Enter" \/ IsChar(k, {" "}) -> ActivateSelected(a, io)
      [] OTHER -> a

\* handle_config_input that leaves for Normal whatever is staged
handle_config_input_leaving_to_normal(a, k) ==
    CASE k.code = "Esc" -> [a EXCEPT !.mode = "Normal", !.config_action = "None"]
      [] IsChar(k, {"q"}) -> [a EXCEPT !.mode = "Normal"]
      [] IsChar(k, {"a"}) -> start_adding_host(a)
      [] IsChar(k, {"e"}) -> start_editing_selected_host(a)
      [] IsChar(k, {"d"}) -> start_deleting_selected_host(a)
      [] k.code = "Down" -> next(a)
      [] k.code = "Up" -> previous(a)
      [] OTHER -> a

handle_config_input(a, k) ==
    CASE k.code = "Esc" ->
            IF a.pending_changes # <<>>
            THEN [a EXCEPT !.mode = "ReviewChanges"]
            ELSE [a EXCEPT !.mode = "Normal", !.config_action = "None"]
      [] IsChar(k, {"q"}) ->
            IF a.pending_changes # <<>>
            THEN [a EXCEPT !.mode = "ReviewChanges"]
            ELSE [a EXCEPT !.mode = "Normal"]
      [] IsChar(k, {"a"}) -> start_adding_host(a)
      [] IsChar(k, {"e"}) -> start_editing_selected_host(a)
      [] IsChar(k, {"d"}) -> start_deleting_selected_host(a)
      [] k.code = "Down" -> next(a)
      [] k.code = "Up" -> previous(a)
      [] OTHER -> a

\* the buffer after a character key, the `visible` field reading lower case only
TypeChar_case_sensitive(e, c) ==
    IF e.current_field <= 7
    THEN [e EXCEPT ![TextFields[e.current_field + 1]] = Push(@, c)]
    ELSE IF e.current_field = 8
    THEN (CASE c \in {"t", "y"} -> [e EXCEPT !.visible = TRUE]
            [] c \in {"f", "n"} -> [e EXCEPT !.visible = FALSE]
            [] OTHER -> e)
    ELSE e

\* the buffer after a character key on the field current_field
TypeChar(e, c) ==
    IF e.current_field <= 7
    THEN [e EXCEPT ![TextFields[e.current_field + 1]] = Push(@, c)]
    ELSE IF e.current_field = 8
    THEN (CASE CharToLower(c) \in {"t", "y"} -> [e EXCEPT !.visible = TRUE]
            [] CharToLower(c) \in {"f", "n"} -> [e EXCEPT !.visible = FALSE]
            [] OTHER -> e)
    ELSE e

\* the buffer after the space key
TypeSpace(e) ==
    IF e.current_field = 8
    THEN [e EXCEPT !.visible = ~e.visible]
    ELSE IF e.current_field <= 7
    THEN [e EXCEPT ![TextFields[e.current_field + 1]] = Push(@, " ")]
    ELSE e

\* the buffer after Backspace
EraseChar(e) ==
    IF e.current_field <= 7
    THEN [e EXCEPT ![TextFields[e.current_field + 1]] = Pop(@)]
    ELSE e

\* handle_editing_input whose BackTab and Up stop at the first field
handle_editing_input_stopping_at_first(a, k, io) ==
    IF IsSome(a.editing_host)
    THEN LET e == Unwrap(a.editing_host) IN
         CASE k.code = "Esc" ->
                 IF has_edit_changes(a)
                 THEN [a EXCEPT !.mode = "ConfirmDiscardEdit"]
                 ELSE [a EXCEPT !.editing_host = None,
                                !.editing_host_index = None,
                                !.mode = "ConfigManagement"]
           [] k.code \in {"Tab", "Down"} ->
                 [a EXCEPT !.editing_host =
                     Some([e EXCEPT !.current_field = (e.current_field + 1) % 9])]
           [] k.code \in {"BackTab", "Up"} ->
                 [a EXCEPT !.editing_host =
                     Some([e EXCEPT !.current_field =
                             IF e.current_field = 0 THEN 0 ELSE e.current_field - 1])]
           [] k.code = "Enter" ->
                 LET saved == Called(save_edited_host(a), Call("clear"))
                 IN IF io.clear_ok THEN saved ELSE Failed(saved, "Terminal")
           [] k.code = "Backspace" -> [a EXCEPT !.editing_host = Some(EraseChar(e))]
           [] IsChar(k, {" "}) -> [a EXCEPT !.editing_host = Some(TypeSpace(e))]
           [] k.code = "Char" /\ k.ch # " " ->
                 [a EXCEPT !.editing_host = Some(TypeChar(e, k.ch))]
           [] OTHER -> a
    ELSE a

handle_editing_input(a, k, io) ==
    IF IsSome(a.editing_host)
    THEN LET e == Unwrap(a.editing_host) IN
         CASE k.code = "Esc" ->
                 IF has_edit_changes(a)
                 THEN [a EXCEPT !.mode = "ConfirmDiscardEdit"]
                 ELSE [a EXCEPT !.editing_host = None,
                                !.editing_host_index = None,
                                !.mode = "ConfigManagement"]
           [] k.code \in {"Tab", "Down"} ->
                 [a EXCEPT !.editing_host =
                     Some([e EXCEPT !.current_field = (e.current_field + 1) % 9])]
           [] k.code \in {"BackTab", "Up"} ->
                 [a EXCEPT !.editing_host =
                     Some([e EXCEPT !.current_field =
                             IF e.current_field = 0 THEN 8 ELSE e.current_field - 1])]
           [] k.code = "Enter" ->
                 LET saved == Called(save_edited_host(a), Call("clear"))
                 IN IF io.clear_ok THEN saved ELSE Failed(saved, "Terminal")
           [] k.code = "Backspace" -> [a EXCEPT !.editing_host = Some(EraseChar(e))]
           [] IsChar(k, {" "}) -> [a EXCEPT !.editing_host = Some(TypeSpace(e))]
           [] k.code = "Char" /\ k.ch # " " ->
                 [a EXCEPT !.editing_host = Some(TypeChar(e, k.ch))]
           [] OTHER -> a
    ELSE a

\* "Update selection" after the delete: only a selection that is set is clamped
ClampSelection(a) ==
    IF IsSome(a.selected)
    THEN IF a.tree_items = <<>> THEN [a EXCEPT !.selected = None]
         ELSE IF Unwrap(a.selected) >= Len(a.tree_items)
              THEN [a EXCEPT !.selected = Some(Len(a.tree_items) - 1)]
              ELSE a
    ELSE a

\* the delete that records its entry at the head of pending_changes
DeleteHost_logging_first(a, host_idx) ==
    ClampSelection(filter_hosts(
        [a EXCEPT !.pending_changes = <<Deleted(At(a.hosts, host_idx))>> \o @,
                  !.hosts = VecRemove(@, host_idx)]))

\* the delete that leaves the selection on the row it was on
DeleteHost_keeping_selection(a, host_idx) ==
    [filter_hosts(
        [a EXCEPT !.pending_changes = Append(@, Deleted(At(a.hosts, host_idx))),
                  !.hosts = VecRemove(@, host_idx)])
     EXCEPT !.selected = a.selected]

\* the delete that removes the first host, whichever was asked for
DeleteHost_removing_first(a, host_idx) ==
    ClampSelection(filter_hosts(
        [a EXCEPT !.pending_changes = Append(@, Deleted(At(a.hosts, host_idx))),
                  !.hosts = VecRemove(@, 0)]))

\* the delete that leaves tree_items as they were before the removal
DeleteHost_keeping_tree(a, host_idx) ==
    ClampSelection(
        [a EXCEPT !.pending_changes = Append(@, Deleted(At(a.hosts, host_idx))),
                  !.hosts = VecRemove(@, host_idx)])

\* the body of `if let Some(host_idx) = self.delete_target` for an index in range
DeleteHost(a, host_idx) ==
    ClampSelection(filter_hosts(
        [a EXCEPT !.pending_changes = Append(@, Deleted(At(a.hosts, host_idx))),
                  !.hosts = VecRemove(@, host_idx)]))

\* handle_delete_confirm_input whose refusal leaves delete_target set
handle_delete_confirm_input_keeping_target(a, k) ==
    CASE IsChar(k, {"y", "Y"}) ->
            LET done == IF IsSome(a.delete_target) /\ Unwrap(a.delete_target) < Len(a.hosts)
                        THEN DeleteHost(a, Unwrap(a.delete_target))
                        ELSE a
            IN [done EXCEPT !.delete_target = None, !.mode = "ConfigManagement"]
      [] IsChar(k, {"n", "N"}) \/ k.code = "Esc" -> [a EXCEPT !.mode = "ConfigManagement"]
      [] OTHER -> a

handle_delete_confirm_input(a, k) ==
    CASE IsChar(k, {"y", "Y"}) ->
            LET done == IF IsSome(a.delete_target) /\ Unwrap(a.delete_target) < Len(a.hosts)
                        THEN DeleteHost(a, Unwrap(a.delete_target))
                        ELSE a
            IN [done EXCEPT !.delete_target = None, !.mode = "ConfigManagement"]
      [] IsChar(k, {"n", "N"}) \/ k.code = "Esc" ->
            [a EXCEPT !.delete_target = None, !.mode = "ConfigManagement"]
      [] OTHER -> a

\* usize::saturating_sub
SaturatingSub(x, y) == IF x >= y THEN x - y ELSE 0

\* handle_review_input whose Esc throws the staged changes away
handle_review_input_esc_discards(a, k, io) ==
    CASE IsChar(k, {"y", "Y"}) ->
            LET applied == apply_changes(a, io.write_ok)
            IN IF applied.result = "Ok"
               THEN [applied EXCEPT !.mode = "Normal", !.review_scroll = 0]
               ELSE applied
      [] IsChar(k, {"n", "N"}) ->
            [discard_changes(a) EXCEPT !.mode = "Normal", !.review_scroll = 0]
      [] k.code = "Esc" ->
            [discard_changes(a) EXCEPT !.mode = "ConfigManagement", !.review_scroll = 0]
      [] k.code = "Up" ->
            IF a.review_scroll > 0 THEN [a EXCEPT !.review_scroll = @ - 1] ELSE a
      [] k.code = "Down" -> [a EXCEPT !.review_scroll = @ + 1]
      [] k.code = "PageUp" -> [a EXCEPT !.review_scroll = SaturatingSub(@, 10)]
      [] k.code = "PageDown" -> [a EXCEPT !.review_scroll = @ + 10]
      [] OTHER -> a

\* handle_review_input whose 'n' leaves for Normal with everything still staged
handle_review_input_n_keeps_staged(a, k, io) ==
    CASE IsChar(k, {"y", "Y"}) ->
            LET applied == apply_changes(a, io.write_ok)
            IN IF applied.result = "Ok"
               THEN [applied EXCEPT !.mode = "Normal", !.review_scroll = 0]
               ELSE applied
      [] IsChar(k, {"n", "N"}) -> [a EXCEPT !.mode = "Normal", !.review_scroll = 0]
      [] k.code = "Esc" -> [a EXCEPT !.mode = "ConfigManagement", !.review_scroll = 0]
      [] k.code = "Up" ->
            IF a.review_scroll > 0 THEN [a EXCEPT !.review_scroll = @ - 1] ELSE a
      [] k.code = "Down" -> [a EXCEPT !.review_scroll = @ + 1]
      [] k.code = "PageUp" -> [a EXCEPT !.review_scroll = SaturatingSub(@, 10)]
      [] k.code = "PageDown" -> [a EXCEPT !.review_scroll = @ + 10]
      [] OTHER -> a

\* handle_review_input whose Esc leaves review_scroll where it is
handle_review_input_esc_keeps_scroll(a, k, io) ==
    CASE IsChar(k, {"y", "Y"}) ->
            LET applied == apply_changes(a, io.write_ok)
            IN IF applied.result = "Ok"
               THEN [applied EXCEPT !.mode = "Normal", !.review_scroll = 0]
               ELSE applied
      [] IsChar(k, {"n", "N"}) ->
            [discard_changes(a) EXCEPT !.mode = "Normal", !.review_scroll = 0]
      [] k.code = "Esc" -> [a EXCEPT !.mode = "ConfigManagement"]
      [] k.code = "Up" ->
            IF a.review_scroll > 0 THEN [a EXCEPT !.review_scroll = @ - 1] ELSE a
      [] k.code = "Down" -> [a EXCEPT !.review_scroll = @ + 1]
      [] k.code = "PageUp" -> [a EXCEPT !.review_scroll = SaturatingSub(@, 10)]
      [] k.code = "PageDown" -> [a EXCEPT !.review_scroll = @ + 10]
      [] OTHER -> a

handle_review_input(a, k, io) ==
    CASE IsChar(k, {"y", "Y"}) ->
            LET applied == apply_changes(a, io.write_ok)
            IN IF applied.result = "Ok"
               THEN [applied EXCEPT !.mode = "Normal", !.review_scroll = 0]
               ELSE applied
      [] IsChar(k, {"n", "N"}) ->
            [discard_changes(a) EXCEPT !.mode = "Normal", !.review_scroll = 0]
      [] k.code = "Esc" -> [a EXCEPT !.mode = "ConfigManagement", !.review_scroll = 0]
      [] k.code = "Up" ->
            IF a.review_scroll > 0 THEN [a EXCEPT !.review_scroll = @ - 1] ELSE a
      [] k.code = "Down" -> [a EXCEPT !.review_scroll = @ + 1]
      [] k.code = "PageUp" -> [a EXCEPT !.review_scroll = SaturatingSub(@, 10)]
      [] k.code = "PageDown" -> [a EXCEPT !.review_scroll = @ + 10]
      [] OTHER -> a

\* handle_discard_edit_confirm_input that takes Esc for a yes
handle_discard_edit_confirm_input_esc_discards(a, k) ==
    CASE IsChar(k, {"y", "Y"}) \/ k.code = "Esc" -> CloseEditSession(discard_current_edit(a))
      [] IsChar(k, {"n", "N"}) -> [a EXCEPT !.mode = "EditingHost"]
      [] OTHER -> a

handle_discard_edit_confirm_input(a, k) ==
    CASE IsChar(k, {"y", "Y"}) -> CloseEditSession(discard_current_edit(a))
      [] IsChar(k, {"n", "N"}) \/ k.code = "Esc" -> [a EXCEPT !.mode = "EditingHost"]
      [] OTHER -> a

(***************************************************************************)
(* generate_diff_lines: the text of the review, one line per element.      *)
(***************************************************************************)
\* format!("{}", bool)
FormatBool(b) == IF b THEN <<"t", "r", "u", "e">> ELSE <<"f", "a", "l", "s", "e">>

\* the lines of an Added (sign "+") or Deleted (sign "-") entry: the lines of
\* the host as write_ssh_config lays them out, behind the sign
SignedLines(sign, host) ==
    [i \in 1 .. Len(MetadataLines(host)) |-> <<sign, " ">> \o MetadataLines(host)[i]]
    \o <<<<sign, " ">> \o DirectiveLines(host)[1]>>
    \o [i \in 1 .. (Len(DirectiveLines(host)) - 1) |->
            <<sign>> \o Tail(DirectiveLines(host)[i + 1])]
    \o [i \in 1 .. Len(OptionLines(host.other_options)) |->
            <<sign>> \o Tail(OptionLines(host.other_options)[i])]
    \o <<<<>>>>

\* the lines of a Modified entry
ModifiedLines(old, new) ==
    <<<<"~", " ", "H", "o", "s", "t", " ">> \o old.name>>
    \o (IF old.folder # new.folder
        THEN (IF IsSome(old.folder)
              THEN <<<<"-", " ", "#", " ", "@", "f", "o", "l", "d", "e", "r", ":", " ">> \o Unwrap(old.folder)>> ELSE <<>>)
             \o (IF IsSome(new.folder)
                 THEN <<<<"+", " ", "#", " ", "@", "f", "o", "l", "d", "e", "r", ":", " ">> \o Unwrap(new.folder)>> ELSE <<>>)
        ELSE <<>>)
    \o (IF old.display_name # new.display_name
        THEN (IF IsSome(old.display_name)
              THEN <<<<"-", " ", "#", " ", "@", "n", "a", "m", "e", ":", " ">> \o Unwrap(old.display_name)>> ELSE <<>>)
             \o (IF IsSome(new.display_name)
                 THEN <<<<"+", " ", "#", " ", "@", "n", "a", "m", "e", ":", " ">> \o Unwrap(new.display_name)>> ELSE <<>>)
        ELSE <<>>)
    \o (IF old.description # new.description
        THEN (IF IsSome(old.description)
              THEN <<<<"-", " ", "#", " ", "@", "d", "e", "s", "c", "r", "i", "p", "t", "i", "o", "n", ":", " ">> \o Unwrap(old.description)>> ELSE <<>>)
             \o (IF IsSome(new.description)
                 THEN <<<<"+", " ", "#", " ", "@", "d", "e", "s", "c", "r", "i", "p", "t", "i", "o", "n", ":", " ">> \o Unwrap(new.description)>> ELSE <<>>)
        ELSE <<>>)
    \o (IF old.visible # new.visible
        THEN <<<<"-", " ", "#", " ", "@", "v", "i", "s", "i", "b", "l", "e", ":", " ">> \o FormatBool(old.visible),
               <<"+", " ", "#", " ", "@", "v", "i", "s", "i", "b", "l", "e", ":", " ">> \o FormatBool(new.visible)>>
        ELSE <<>>)
    \o (IF old.hostname # new.hostname
        THEN (IF IsSome(old.hostname)
              THEN <<<<"-", " ", " ", " ", "H", "o", "s", "t", "N", "a", "m", "e", " ">> \o Unwrap(old.hostname)>> ELSE <<>>)
             \o (IF IsSome(new.hostname)
                 THEN <<<<"+", " ", " ", " ", "H", "o", "s", "t", "N", "a", "m", "e", " ">> \o Unwrap(new.hostname)>> ELSE <<>>)
        ELSE <<>>)
    \o (IF old.user # new.user
        THEN (IF IsSome(old.user)
              THEN <<<<"-", " ", " ", " ", "U", "s", "e", "r", " ">> \o Unwrap(old.user)>> ELSE <<>>)
             \o (IF IsSome(new.user)
                 THEN <<<<"+", " ", " ", " ", "U", "s", "e", "r", " ">> \o Unwrap(new.user)>> ELSE <<>>)
        ELSE <<>>)
    \o (IF old.port # new.port
        THEN (IF IsSome(old.port)
              THEN <<<<"-", " ", " ", " ", "P", "o", "r", "t", " ">> \o Unwrap(old.port)>> ELSE <<>>)
             \o (IF IsSome(new.port)
                 THEN <<<<"+", " ", " ", " ", "P", "o", "r", "t", " ">> \o Unwrap(new.port)>> ELSE <<>>)
        ELSE <<>>)
    \o (IF old.identity_file # new.identity_file
        THEN (IF IsSome(old.identity_file)
              THEN <<<<"-", " ", " ", " ", "I", "d", "e", "n", "t", "i", "t", "y", "F", "i", "l", "e", " ">> \o Unwrap(old.identity_file)>> ELSE <<>>)
             \o (IF IsSome(new.identity_file)
                 THEN <<<<"+", " ", " ", " ", "I", "d", "e", "n", "t", "i", "t", "y", "F", "i", "l", "e", " ">> \o Unwrap(new.identity_file)>> ELSE <<>>)
        ELSE <<>>)
    \o <<<<>>>>

DiffOfChange(change) ==
    CASE change.type = "Added" -> SignedLines("+", change.host)
      [] change.type = "Modified" -> ModifiedLines(change.old, change.new)
      [] change.type = "Deleted" -> SignedLines("-", change.host)

RECURSIVE DiffOfChanges(_)
DiffOfChanges(changes) ==
    IF changes = <<>> THEN <<>>
    ELSE DiffOfChange(Head(changes)) \o DiffOfChanges(Tail(changes))

generate_diff_lines(a) == DiffOfChanges(a.pending_changes)

(***************************************************************************)
(* render_changes_review (ui/mod.rs): the window of diff lines it slices.  *)
(***************************************************************************)
Min(x, y) == IF x <= y THEN x ELSE y

\* content_height for the terminal heights the model draws on
ContentHeights == {1, 5, 30}

\* start_line and end_line of `diff_lines[start_line..end_line]`
visible_window(a, content_height) ==
    [start_line |-> a.review_scroll,
     end_line |-> Min(a.review_scroll + content_height, Len(generate_diff_lines(a)))]

\* the slice panics when start_line > end_line or end_line > len
slice_panics(a, content_height) ==
    LET w == visible_window(a, content_height) IN
    \/ w.start_line > w.end_line
    \/ w.end_line > Len(generate_diff_lines(a))

handle_version_input(a, k) ==
    CASE k.code \in {"Esc", "Enter"} \/ IsChar(k, {"q"}) -> [a EXCEPT !.mode = "Normal"]
      [] OTHER -> a

\* handle_event for a key press: the handler of the current mode
handle_event(a0, k, io) ==
    LET a == [a0 EXCEPT !.result = "Ok", !.calls = <<>>] IN
    CASE a.mode = "Search" -> handle_search_input(a, k, io)
      [] a.mode = "Normal" -> handle_normal_input(a, k, io)
      [] a.mode = "ConfigManagement" -> handle_config_input(a, k)
      [] a.mode = "EditingHost" -> handle_editing_input(a, k, io)
      [] a.mode = "ConfirmDelete" -> handle_delete_confirm_input(a, k)
      [] a.mode = "ConfirmDiscardEdit" -> handle_discard_edit_confirm_input(a, k)
      [] a.mode = "ReviewChanges" -> handle_review_input(a, k, io)
      [] a.mode = "ShowVersion" -> handle_version_input(a, k)


(***************************************************************************)
(* The state: the fields of App, what the last handle_event call returned  *)
(* (`result`, `calls`), and three history variables: `last_op` names the   *)
(* staging operation the last event asked for, if any, with the length of  *)
(* pending_changes it found and the outcomes of the external calls;        *)
(* `effort` counts the key presses so far that edited the query or the     *)
(* edit buffer or asked for an add, edit or delete dialog; `staged_from`   *)
(* is hosts as it was when pending_changes was last empty.                 *)
(***************************************************************************)
VARIABLES hosts, original_hosts, filtered_hosts, tree_items, selected,
          search_query, mode, config_action, editing_host, editing_host_index,
          pending_changes, delete_target, review_scroll,
          current_edit_change_index, should_quit, result, calls, last_op,
          effort, staged_from,
          pc, raw_entered, restore_called, returned

vars == <<hosts, original_hosts, filtered_hosts, tree_items, selected,
          search_query, mode, config_action, editing_host, editing_host_index,
          pending_changes, delete_target, review_scroll,
          current_edit_change_index, should_quit, result, calls, last_op,
          effort, staged_from,
          pc, raw_entered, restore_called, returned>>

\* the position and the terminal bookkeeping of `run`
run_vars == <<pc, raw_entered, restore_called, returned>>

Self ==
    [hosts |-> hosts, original_hosts |-> original_hosts,
     filtered_hosts |-> filtered_hosts, tree_items |-> tree_items,
     selected |-> selected, search_query |-> search_query, mode |-> mode,
     config_action |-> config_action, editing_host |-> editing_host,
     editing_host_index |-> editing_host_index,
     pending_changes |-> pending_changes, delete_target |-> delete_target,
     review_scroll |-> review_scroll,
     current_edit_change_index |-> current_edit_change_index,
     should_quit |-> should_quit, result |-> result, calls |-> calls]

\* App::new on the hosts parse_ssh_config returned
App_new(loaded) ==
    LET app == rebuild_tree(
            [hosts |-> loaded, original_hosts |-> loaded,
             filtered_hosts |-> [j \in 1 .. Len(loaded) |-> j - 1],
             tree_items |-> <<>>, selected |-> None, search_query |-> <<>>,
             mode |-> "Normal", config_action |-> "None",
             editing_host |-> None, editing_host_index |-> None,
             pending_changes |-> <<>>, delete_target |-> None,
             review_scroll |-> 0, current_edit_change_index |-> None,
             should_quit |-> FALSE, result |-> "Ok", calls |-> <<>>])
    IN SelectFirst(app)

\* the configurations the model loads
db == <<"d", "b">>
web == <<"w", "e", "b">>
bastion == <<"b", "a", "s", "t", "i", "o", "n">>
prod == <<"p", "r", "o", "d">>
dev == <<"d", "e", "v">>

InFolder(h, f) == [h EXCEPT !.folder = Some(f)]

ScenarioConfig ==
    <<InFolder(SshHost_new(db), prod), InFolder(SshHost_new(web), prod),
      SshHost_new(bastion)>>

RenamedConfig ==
    <<[InFolder(SshHost_new(web), prod) EXCEPT
          !.display_name = Some(<<"A", "p", "p">>),
          !.hostname = Some(<<"h", "a">>),
          !.other_options = {<<<<"c", "o", "m", "p", "r", "e", "s", "s", "i", "o", "n">>,
                               <<"y", "e", "s">>>>}],
      InFolder(SshHost_new(db), prod),
      [InFolder(SshHost_new(<<"o", "l", "d">>), dev) EXCEPT
          !.visible = FALSE, !.description = Some(<<"B", "o", "x">>)]>>

LoneConfig == <<SshHost_new(bastion)>>

LoadedConfigs == {<<>>, LoneConfig, ScenarioConfig, RenamedConfig}

\* the outcomes of the external calls when every one of them succeeds
QuietIO ==
    [write_ok |-> TRUE, suspend_ok |-> TRUE, resume_ok |-> TRUE,
     clear_ok |-> TRUE, spawn |-> "Exit0"]

NoOp == <<"none", 0, QuietIO>>

\* the handlers of a constructed App, driven by events one after the other
Init ==
    \E loaded \in LoadedConfigs :
        LET a == App_new(loaded) IN
        /\ pc = "events"
        /\ raw_entered = TRUE
        /\ restore_called = FALSE
        /\ returned = None
        /\ hosts = a.hosts
        /\ original_hosts = a.original_hosts
        /\ filtered_hosts = a.filtered_hosts
        /\ tree_items = a.tree_items
        /\ selected = a.selected
        /\ search_query = a.search_query
        /\ mode = a.mode
        /\ config_action = a.config_action
        /\ editing_host = a.editing_host
        /\ editing_host_index = a.editing_host_index
        /\ pending_changes = a.pending_changes
        /\ delete_target = a.delete_target
        /\ review_scroll = a.review_scroll
        /\ current_edit_change_index = a.current_edit_change_index
        /\ should_quit = a.should_quit
        /\ result = a.result
        /\ calls = a.calls
        /\ last_op = NoOp
        /\ effort = 0
        /\ staged_from = a.hosts

Becomes(a) ==
    /\ hosts' = a.hosts
    /\ original_hosts' = a.original_hosts
    /\ filtered_hosts' = a.filtered_hosts
    /\ tree_items' = a.tree_items
    /\ selected' = a.selected
    /\ search_query' = a.search_query
    /\ mode' = a.mode
    /\ config_action' = a.config_action
    /\ editing_host' = a.editing_host
    /\ editing_host_index' = a.editing_host_index
    /\ pending_changes' = a.pending_changes
    /\ delete_target' = a.delete_target
    /\ review_scroll' = a.review_scroll
    /\ current_edit_change_index' = a.current_edit_change_index
    /\ should_quit' = a.should_quit
    /\ result' = a.result
    /\ calls' = a.calls
    /\ staged_from' = IF a.pending_changes = <<>> THEN a.hosts ELSE staged_from

(***************************************************************************)
(* The keys and external outcomes the model dispatches.                    *)
(***************************************************************************)
ConnectIO ==
    [write_ok : {TRUE}, suspend_ok : BOOLEAN, resume_ok : BOOLEAN,
     clear_ok : BOOLEAN, spawn : {"Exit0", "ExitNonZero", "Signaled", "SpawnErr"}]

ClearIO == {[QuietIO EXCEPT !.clear_ok = b] : b \in BOOLEAN}
WriteIO == {[QuietIO EXCEPT !.write_ok = b] : b \in BOOLEAN}

\* characters typed into the query, and into the text fields of the buffer
QueryChars == {"a", "B"}
TextChars == {"B", " "}
\* the text fields (by current_field) the model types into: name and folder
TypedFields == {0, 5}
\* characters pressed on the `visible` field
VisibleChars == {"t", "Y", "f", "N", " ", "x"}

NavKeys == {Key("Up"), Key("Down")}
ConfirmKeys == {Char("y"), Char("Y"), Char("n"), Char("N"), Key("Esc"), Char("x")}

\* the staging operation a key press in mode m asks for
OpOf(m, k) ==
    CASE m = "EditingHost" /\ k.code = "Enter" -> "commit"
      [] m = "ConfirmDelete" /\ IsChar(k, {"y", "Y"}) -> "delete"
      [] m = "ConfirmDiscardEdit" /\ IsChar(k, {"y", "Y"}) -> "discard_edit"
      [] m = "ReviewChanges" /\ IsChar(k, {"y", "Y"}) -> "apply"
      [] m = "ReviewChanges" /\ IsChar(k, {"n", "N"}) -> "discard"
      [] OTHER -> "none"

\* `app.handle_event(event, terminal)?` in the loop of run_app: an error leaves
\* the loop; handlers driven outside `run` (pc = "events") go on
AfterEvent(r) ==
    /\ pc \in {"events", "loop"}
    /\ pc' = IF pc = "loop" /\ r # "Ok" THEN "restore" ELSE pc
    /\ UNCHANGED <<raw_entered, restore_called, returned>>

\* handle_event with a key press, and the history variables
Dispatch(k, io, cost) ==
    /\ ~should_quit
    /\ effort + cost <= MaxEffort
    /\ Becomes(handle_event(Self, k, io))
    /\ AfterEvent(handle_event(Self, k, io).result)
    /\ last_op' = IF OpOf(mode, k) = "none" THEN NoOp
                  ELSE <<OpOf(mode, k), Len(pending_changes), io>>
    /\ effort' = effort + cost

NormalKey ==
    /\ mode = "Normal"
    /\ \/ \E k \in NavKeys \cup {Char("q"), Char("/"), Char("e"), Char("v"), Char("x")} :
             Dispatch(k, QuietIO, 0)
       \/ \E k \in {Key("Enter"), Char(" ")} : \E io \in ConnectIO :
             Dispatch(k, io, 0)

SearchKey ==
    /\ mode = "Search"
    /\ \/ \E k \in {Char(c) : c \in QueryChars} \cup {Key("Backspace")} :
             Dispatch(k, QuietIO, 1)
       \/ \E k \in {Key("Esc"), Key("Tab")} : Dispatch(k, QuietIO, 0)
       \/ \E io \in ConnectIO : Dispatch(Key("Enter"), io, 0)

ConfigKey ==
    /\ mode = "ConfigManagement"
    /\ \/ \E k \in NavKeys \cup {Key("Esc"), Char("q"), Char("x")} :
             Dispatch(k, QuietIO, 0)
       \/ \E k \in {Char("a"), Char("e"), Char("d")} : Dispatch(k, QuietIO, 1)

EditingKey ==
    /\ mode = "EditingHost"
    /\ \/ \E k \in {Key("Esc"), Key("Tab"), Key("Down"), Key("BackTab"), Key("Up"),
                    Key("PageUp")} :
             Dispatch(k, QuietIO, 0)
       \/ \E io \in ClearIO : Dispatch(Key("Enter"), io, 0)
       \/ /\ IsSome(editing_host) /\ Unwrap(editing_host).current_field \in TypedFields
          /\ \E k \in {Char(c) : c \in TextChars} \cup {Key("Backspace")} :
                Dispatch(k, QuietIO, 1)
       \/ /\ IsSome(editing_host) /\ Unwrap(editing_host).current_field = 8
          /\ \E k \in {Char(c) : c \in VisibleChars} \cup {Key("Backspace")} :
                Dispatch(k, QuietIO, 1)

ConfirmDeleteKey ==
    /\ mode = "ConfirmDelete"
    /\ \E k \in ConfirmKeys : Dispatch(k, QuietIO, 0)

ConfirmDiscardEditKey ==
    /\ mode = "ConfirmDiscardEdit"
    /\ \E k \in ConfirmKeys : Dispatch(k, QuietIO, 0)

ReviewKey ==
    /\ mode = "ReviewChanges"
    /\ \/ \E k \in {Char("n"), Char("N"), Key("Esc"), Key("PageUp"), Char("x")} :
             Dispatch(k, QuietIO, 0)
       \/ \E k \in {Char("y"), Char("Y")} : \E io \in WriteIO : Dispatch(k, io, 0)
       \/ /\ review_scroll <= MaxScroll
          /\ \E k \in {Key("Up"), Key("Down"), Key("PageDown")} : Dispatch(k, QuietIO, 0)

VersionKey ==
    /\ mode = "ShowVersion"
    /\ \E k \in {Key("Esc"), Key("Enter"), Char("q"), Char("x")} : Dispatch(k, QuietIO, 0)

\* an event that is not a key press: handle_event returns Ok and changes nothing
OtherEvent ==
    /\ ~should_quit
    /\ Becomes([Self EXCEPT !.result = "Ok", !.calls = <<>>])
    /\ AfterEvent("Ok")
    /\ last_op' = NoOp
    /\ effort' = effort

Next ==
    \/ NormalKey
    \/ SearchKey
    \/ ConfigKey
    \/ EditingKey
    \/ ConfirmDeleteKey
    \/ ConfirmDiscardEditKey
    \/ ReviewKey
    \/ VersionKey
    \/ OtherEvent

Spec == Init /\ [][Next]_vars

(***************************************************************************)
(* The top-level `run`: the terminal is set up, the App is constructed,    *)
(* run_app loops over draw, the should_quit test, event::read and          *)
(* handle_event, and the terminal is restored on the way out of the loop.  *)
(***************************************************************************)
\* the App variables while no App exists (before App::new, after the return)
NoApp == App_new(<<>>)

Holds(a) ==
    /\ hosts = a.hosts
    /\ original_hosts = a.original_hosts
    /\ filtered_hosts = a.filtered_hosts
    /\ tree_items = a.tree_items
    /\ selected = a.selected
    /\ search_query = a.search_query
    /\ mode = a.mode
    /\ config_action = a.config_action
    /\ editing_host = a.editing_host
    /\ editing_host_index = a.editing_host_index
    /\ pending_changes = a.pending_changes
    /\ delete_target = a.delete_target
    /\ review_scroll = a.review_scroll
    /\ current_edit_change_index = a.current_edit_change_index
    /\ should_quit = a.should_quit
    /\ result = a.result
    /\ calls = a.calls

InitRun ==
    /\ pc = "new_terminal"
    /\ raw_entered = FALSE
    /\ restore_called = FALSE
    /\ returned = None
    /\ Holds(NoApp)
    /\ last_op = NoOp
    /\ effort = 0
    /\ staged_from = <<>>

\* `return` of run: the value goes to the caller, App and terminal are dropped
Return(r) ==
    /\ pc' = "done"
    /\ returned' = Some(r)
    /\ Becomes(NoApp)
    /\ last_op' = NoOp
    /\ effort' = 0

\* the steps of TerminalManager::new, each of which may fail
TerminalSteps == {"enable_raw_mode", "EnterAlternateScreen", "Terminal::new"}

\* `TerminalManager::new()?`
TerminalNew ==
    /\ pc = "new_terminal"
    /\ \/ /\ raw_entered' = TRUE
          /\ pc' = "new_app"
          /\ UNCHANGED <<hosts, original_hosts, filtered_hosts, tree_items,
                         selected, search_query, mode, config_action,
                         editing_host, editing_host_index, pending_changes,
                         delete_target, review_scroll, current_edit_change_index,
                         should_quit, result, calls, last_op, effort, staged_from,
                         returned>>
       \/ \E failing \in TerminalSteps :
             /\ raw_entered' = (failing # "enable_raw_mode")
             /\ Return("Terminal")
    /\ UNCHANGED restore_called

\* `App::new()?`: the configuration is loaded, or the load fails
AppNew ==
    /\ pc = "new_app"
    /\ \/ \E loaded \in LoadedConfigs :
             /\ Becomes(App_new(loaded))
             /\ pc' = "loop"
             /\ UNCHANGED <<last_op, effort, returned>>
       \/ Return("Config")
    /\ UNCHANGED <<raw_entered, restore_called>>

\* the loop is left with the result r of run_app
LeaveLoop(r) ==
    /\ pc' = "restore"
    /\ result' = r
    /\ UNCHANGED <<hosts, original_hosts, filtered_hosts, tree_items, selected,
                   search_query, mode, config_action, editing_host,
                   editing_host_index, pending_changes, delete_target,
                   review_scroll, current_edit_change_index, should_quit, calls,
                   last_op, effort, staged_from,
                   raw_entered, restore_called, returned>>

\* `terminal.terminal().draw(..)?` fails
DrawFails ==
    /\ pc = "loop"
    /\ LeaveLoop("Io")

\* `if app.should_quit { break; }`, then Ok(())
Quit ==
    /\ pc = "loop"
    /\ should_quit
    /\ LeaveLoop("Ok")

\* `event::read()?` fails
ReadFails ==
    /\ pc = "loop"
    /\ ~should_quit
    /\ LeaveLoop("Io")

\* `terminal.restore()?; result`
Restore ==
    /\ pc = "restore"
    /\ restore_called' = TRUE
    /\ \E restore_ok \in BOOLEAN :
          Return(IF restore_ok THEN result ELSE "Terminal")
    /\ UNCHANGED raw_entered

NextRun ==
    \/ TerminalNew
    \/ AppNew
    \/ DrawFails
    \/ Quit
    \/ ReadFails
    \/ Restore
    \/ NormalKey
    \/ SearchKey
    \/ ConfigKey
    \/ EditingKey
    \/ ConfirmDeleteKey
    \/ ConfirmDiscardEditKey
    \/ ReviewKey
    \/ VersionKey
    \/ OtherEvent

SpecRun == InitRun /\ [][NextRun]_vars

(***************************************************************************)
(* Staging, applying and discarding.  A step that dispatched a staging     *)
(* operation is recognised by the value it leaves in last_op:              *)
(* <<operation, Len(pending_changes) before the step, external outcomes>>. *)
(***************************************************************************)

\* C1: when 'n' or 'N' is pressed in ReviewChanges, whatever was staged
\* before, hosts afterwards is the host list as it was before the first
\* staged operation, which is original_hosts; pending_changes is empty and the
\* mode is Normal.
C1_FullDiscardRestoresSnapshot ==
    [][last_op'[1] = "discard" =>
          /\ hosts' = staged_from
          /\ hosts' = original_hosts
          /\ original_hosts' = original_hosts
          /\ pending_changes' = <<>>
          /\ mode' = "Normal"]_vars

\* a discard of two or more staged changes has just happened
C1_DiscardedSeveral ==
    /\ last_op[1] = "discard" /\ last_op[2] >= 2
    /\ pending_changes = <<>> /\ mode = "Normal" /\ hosts = original_hosts

\* C2: when 'y' or 'Y' is pressed in ReviewChanges and write_ssh_config
\* succeeds, the writer is called once, with exactly the current hosts;
\* afterwards original_hosts equals hosts, pending_changes is empty and the
\* mode is Normal.
C2_SuccessfulApply ==
    [][(last_op'[1] = "apply" /\ last_op'[3].write_ok) =>
          /\ result' = "Ok"
          /\ calls' = <<CallWith("write_ssh_config", hosts)>>
          /\ hosts' = hosts
          /\ original_hosts' = hosts'
          /\ pending_changes' = <<>>
          /\ mode' = "Normal"]_vars

\* two or more staged changes have just been written and became the snapshot
C2_AppliedSeveral ==
    /\ last_op[1] = "apply" /\ last_op[3].write_ok /\ last_op[2] >= 2
    /\ calls = <<CallWith("write_ssh_config", hosts)>>
    /\ original_hosts = hosts /\ pending_changes = <<>> /\ mode = "Normal"

C4_EmptyNameCommitIsNoOp ==
    [][(/\ last_op'[1] = "commit"
        /\ IsSome(editing_host)
        /\ Trim(Unwrap(editing_host).name) = <<>>) =>
          /\ result' = (IF last_op'[3].clear_ok THEN "Ok" ELSE "Terminal")
          /\ mode' = "EditingHost"
          /\ hosts' = hosts
          /\ pending_changes' = pending_changes
          /\ tree_items' = tree_items
          /\ editing_host' = editing_host
          /\ editing_host_index' = editing_host_index]_vars

\* Enter has just been pressed on a name of blanks only, and nothing was staged
C4_BlankNameRefused ==
    /\ last_op[1] = "commit" /\ result = "Ok"
    /\ mode = "EditingHost" /\ IsSome(editing_host)
    /\ Unwrap(editing_host).name # <<>>
    /\ Trim(Unwrap(editing_host).name) = <<>>
    /\ Len(pending_changes) = last_op[2]


(***************************************************************************)
(* Committing the edit buffer.  CommitOf(kind) is a step that dispatched   *)
(* Enter in EditingHost on a buffer whose name does not trim to empty,     *)
(* with (kind = "edit") or without (kind = "add") a host index.            *)
(***************************************************************************)
Committing ==
    /\ last_op'[1] = "commit"
    /\ IsSome(editing_host)
    /\ Trim(Unwrap(editing_host).name) # <<>>

\* the view filter_hosts leaves for host list hs under the query of the state
ViewOf(hs) ==
    IF search_query = <<>> THEN TreeOf(hs)
    ELSE HostRows(Ascending({i \in Indices(hs) : matches_search(At(hs, i), search_query)}))

\* C5: after Enter commits an Add or an Edit with a non-empty name,
\* current_edit_change_index is Some(Len(pending_changes) - 1): it designates
\* the entry this commit pushed.
C5_CommitRecordsRollbackIndex ==
    [][Committing =>
          current_edit_change_index' = Some(Len(pending_changes') - 1)]_vars

\* a commit has just pushed an entry, and current_edit_change_index is None
C5_CommittedWithoutIndex ==
    /\ last_op[1] = "commit"
    /\ Len(pending_changes) = last_op[2] + 1
    /\ current_edit_change_index = None

\* C7: committing an edit of host index i with a non-empty name appends
\* exactly one entry Modified{old, new} to pending_changes, old being hosts[i]
\* before and new the host built from the buffer; hosts[i] becomes new, the
\* length and every other position of hosts stay; the tree is rebuilt for the
\* new hosts and the mode is ConfigManagement.
C7_EditCommitEffect ==
    [][(Committing /\ IsSome(editing_host_index)) =>
          LET i == Unwrap(editing_host_index)
              new == HostFromBuffer(Unwrap(editing_host))
          IN /\ i < Len(hosts)
             /\ pending_changes' = Append(pending_changes, Modified(At(hosts, i), new))
             /\ Len(hosts') = Len(hosts)
             /\ \A j \in Indices(hosts) :
                    At(hosts', j) = IF j = i THEN new ELSE At(hosts, j)
             /\ tree_items' = ViewOf(hosts')
             /\ mode' = "ConfigManagement"]_vars

\* an edit that renamed a host other than the first has just been committed
C7_EditCommitted ==
    /\ last_op[1] = "commit"
    /\ Len(pending_changes) = last_op[2] + 1
    /\ Len(hosts) >= 2 /\ Len(hosts) = Len(original_hosts)
    /\ hosts[1] = original_hosts[1]
    /\ LET c == pending_changes[Len(pending_changes)]
       IN c.type = "Modified" /\ c.old # c.new /\ c.old.name # c.new.name
    /\ mode = "ConfigManagement"

OptionalFields ==
    {"hostname", "user", "port", "identity_file", "folder", "display_name", "description"}

\* C8: committing an Add with a non-empty name appends exactly one entry
\* Added(new) to pending_changes and appends new as the last element of hosts,
\* the earlier positions unchanged; new has the name and the visible flag of
\* the buffer, and each optional field is absent when its buffer text is
\* empty and the buffer text otherwise.
C8_AddCommitEffect ==
    [][(Committing /\ ~IsSome(editing_host_index)) =>
          /\ Len(hosts') = Len(hosts) + 1
          /\ SubSeq(hosts', 1, Len(hosts)) = hosts
          /\ LET new == hosts'[Len(hosts')]
                 e == Unwrap(editing_host)
             IN /\ pending_changes' = Append(pending_changes, Added(new))
                /\ new.name = e.name
                /\ new.visible = e.visible
                /\ \A f \in OptionalFields :
                       new[f] = IF e[f] = <<>> THEN None ELSE Some(e[f])]_vars

\* a host with a typed name, and no folder or hostname, has just been added
\* behind the loaded ones
C8_AddCommitted ==
    /\ last_op[1] = "commit"
    /\ Len(pending_changes) = last_op[2] + 1
    /\ Len(hosts) >= 2
    /\ LET c == pending_changes[Len(pending_changes)]
       IN /\ c.type = "Added"
          /\ c.host = hosts[Len(hosts)]
          /\ c.host.name # <<>>
          /\ c.host.folder = None /\ c.host.hostname = None


(***************************************************************************)
(* The tree.  The properties describe tree_items from hosts alone, without *)
(* the operators rebuild_tree and filter_hosts are modelled with.          *)
(***************************************************************************)
\* display_name if present, else name
EffectiveName(h) == IF h.display_name = <<>> THEN h.name ELSE h.display_name[1]

VisibleHosts == {i \in Indices(hosts) : At(hosts, i).visible}
FolderNames == {At(hosts, i).folder[1] : i \in {j \in VisibleHosts : At(hosts, j).folder # <<>>}}
MembersOf(f) == {i \in VisibleHosts : At(hosts, i).folder = <<f>>}
RootHosts == {i \in VisibleHosts : At(hosts, i).folder = <<>>}

\* the rows of tree t showing host i, and the rows that are the Folder row of f
RowsOfHost(t, i) == {p \in 1 .. Len(t) : t[p].kind = "Host" /\ t[p].host_index = i}
RowsOfFolder(t, f) == {p \in 1 .. Len(t) : t[p].kind = "Folder" /\ t[p].name = f}

\* t is the tree of C9 for the hosts of the state
IsOrderedTree(t) ==
    /\ Len(t) = Cardinality(FolderNames) + Cardinality(VisibleHosts)
    /\ \A p \in 1 .. Len(t) :
          \/ t[p].kind = "Host" /\ t[p].host_index \in VisibleHosts
          \/ t[p].kind = "Folder" /\ t[p].name \in FolderNames /\ t[p].expanded
    /\ \A i \in VisibleHosts : Cardinality(RowsOfHost(t, i)) = 1
    /\ \A f \in FolderNames : Cardinality(RowsOfFolder(t, f)) = 1
    \* folders ascend, and no Folder row comes after a folder-less host
    /\ \A p, q \in 1 .. Len(t) :
          (p < q /\ t[q].kind = "Folder") =>
             \/ t[p].kind = "Folder" /\ StrLess(t[p].name, t[q].name)
             \/ t[p].kind = "Host" /\ At(hosts, t[p].host_index).folder # <<>>
    \* a Folder row lists its visible hosts by effective name, and they follow it
    /\ \A p \in 1 .. Len(t) :
          t[p].kind = "Folder" =>
             LET c == t[p].children_indices IN
             /\ Len(c) = Cardinality(MembersOf(t[p].name))
             /\ {c[k] : k \in 1 .. Len(c)} = MembersOf(t[p].name)
             /\ p + Len(c) <= Len(t)
             /\ \A k \in 1 .. Len(c) : t[p + k] = HostItem(c[k])
             /\ \A k \in 1 .. Len(c) - 1 :
                    StrLeq(EffectiveName(At(hosts, c[k])), EffectiveName(At(hosts, c[k + 1])))
    \* the folder-less hosts are the last rows, by effective name
    /\ \A p \in 1 .. Len(t) :
          (t[p].kind = "Host" /\ t[p].host_index \in RootHosts) =>
             /\ p > Len(t) - Cardinality(RootHosts)
             /\ p < Len(t) =>
                    StrLeq(EffectiveName(At(hosts, t[p].host_index)),
                           EffectiveName(At(hosts, t[p + 1].host_index)))

\* the tree of the scenario [db(prod), web(prod), bastion]
ScenarioTree ==
    <<FolderItem(prod, TRUE, <<0, 1>>), HostItem(0), HostItem(1), HostItem(2)>>

\* C9: with an empty query the tree rebuild_tree builds has, for each folder
\* name in ascending order, one expanded Folder row followed by the folder's
\* visible hosts in ascending order of effective display name, then the
\* visible folder-less hosts in the same order, and no row or children list
\* holds an invisible host; tree_items is that tree whenever the query is
\* empty and no folder is collapsed, and for hosts [db(prod), web(prod),
\* bastion] it is [Folder(prod, expanded, [db, web]), Host(db), Host(web),
\* Host(bastion)].
C9_TreeOrder ==
    /\ IsOrderedTree(rebuild_tree(Self).tree_items)
    /\ (search_query = <<>> /\ \A p \in 1 .. Len(tree_items) :
                                  tree_items[p].kind = "Folder" => tree_items[p].expanded)
          => IsOrderedTree(tree_items)
    /\ hosts = ScenarioConfig => rebuild_tree(Self).tree_items = ScenarioTree

\* a tree with two folders whose order is not the order of hosts, built after
\* a host was moved to a new folder
C9_TwoFoldersOutOfOrder ==
    /\ search_query = <<>>
    /\ Len(tree_items) >= 5
    /\ tree_items[1].kind = "Folder"
    /\ \E p \in 2 .. Len(tree_items) :
          /\ tree_items[p].kind = "Folder"
          /\ \E i \in MembersOf(tree_items[1].name), j \in MembersOf(tree_items[p].name) : j < i
    /\ IsOrderedTree(tree_items)

\* host i matches the query: one of the six fields holds it, case ignored
MatchesQuery(i) ==
    LET h == At(hosts, i)
        q == ToLowercase(search_query)
        texts == {h.name} \cup {h[f][1] : f \in {g \in {"hostname", "user", "display_name",
                                                        "description", "folder"} : h[g] # <<>>}}
    IN \E text \in texts : Contains(ToLowercase(text), q)

\* C10: with a non-empty query, tree_items holds no Folder row and is the
\* list, in hosts order, of one Host row for every host whose name, hostname,
\* user, display_name, description or folder contains the query as a
\* case-insensitive substring, and of no other row.
C10_FilteredView ==
    search_query # <<>> =>
        /\ \A p \in 1 .. Len(tree_items) :
              tree_items[p].kind = "Host" /\ tree_items[p].host_index \in Indices(hosts)
        /\ \A i \in Indices(hosts) :
              Cardinality(RowsOfHost(tree_items, i)) = IF MatchesQuery(i) THEN 1 ELSE 0
        /\ \A p, q \in 1 .. Len(tree_items) :
              p < q => tree_items[p].host_index < tree_items[q].host_index

\* a query that matches a host in a folder by another field than the name and
\* in another case, does not match an earlier or later host, and shows one row
C10_SomeMatchSomeNot ==
    /\ search_query # <<>>
    /\ \E j, k \in Indices(hosts) :
          /\ MatchesQuery(j) /\ At(hosts, j).folder # <<>>
          /\ ~Contains(ToLowercase(At(hosts, j).name), ToLowercase(search_query))
          /\ \E text \in {At(hosts, j).display_name[1]} : ~Contains(text, search_query)
          /\ ~MatchesQuery(k)
          /\ tree_items = <<HostItem(j)>>


(***************************************************************************)
(* Folders.                                                                *)
(***************************************************************************)
\* the rows (0-based) of tree_items that are Folder rows
FolderRowsOfTree == {r \in Indices(tree_items) : At(tree_items, r).kind = "Folder"}

\* C11: in every reachable state and for every Folder row r, applying
\* toggle_folder_expanded(r) twice, collapse then expand or expand then
\* collapse, gives back the same tree_items, the expanded flag and the children
\* list of the folder included; the first application does change the tree.
C11_ToggleTwiceIsIdentity ==
    \A r \in FolderRowsOfTree :
        LET once == toggle_folder_expanded(Self, r)
            twice == toggle_folder_expanded(once, r)
        IN /\ twice.tree_items = tree_items
           /\ At(once.tree_items, r).expanded = ~At(tree_items, r).expanded
           /\ Len(once.tree_items) # Len(tree_items)

\* a folder with two hosts is collapsed and rows follow it
C11_CollapsedFolder ==
    \E r \in FolderRowsOfTree :
        /\ ~At(tree_items, r).expanded
        /\ Len(At(tree_items, r).children_indices) = 2
        /\ r + 1 < Len(tree_items)


\* a step in which tree_items is rebuilt from hosts: a commit of a non-empty
\* name, a confirmed delete or a full discard
RebuildsTree ==
    \/ Committing
    \/ last_op'[1] = "delete" /\ delete_target # <<>>
    \/ last_op'[1] = "discard"

\* C12: when the tree is rebuilt while folder F is collapsed and F still has
\* a visible host afterwards, the Folder row of F is still collapsed and none
\* of its member rows is shown.
C12_ExpandFlagsPersist ==
    [][RebuildsTree =>
          \A r \in FolderRowsOfTree :
              LET F == At(tree_items, r).name
                  members == {i \in Indices(hosts') :
                                 At(hosts', i).visible /\ At(hosts', i).folder = <<F>>}
              IN (~At(tree_items, r).expanded /\ members # {} /\ search_query' = <<>>) =>
                    /\ \E q \in Indices(tree_items') :
                          /\ At(tree_items', q).kind = "Folder"
                          /\ At(tree_items', q).name = F
                          /\ ~At(tree_items', q).expanded
                    /\ \A q \in Indices(tree_items') :
                          At(tree_items', q).kind = "Host" =>
                             At(tree_items', q).host_index \notin members]_vars


(***************************************************************************)
(* Deleting a host.                                                        *)
(***************************************************************************)
\* C13: 'y' or 'Y' in ConfirmDelete appends exactly one entry Deleted(h) to
\* pending_changes, h being the host of the selected Host row (the row 'd' was
\* pressed on, which delete_target names), removes exactly that element from
\* hosts keeping the order of the others, rebuilds tree_items for the shorter
\* list, clears delete_target and returns to ConfigManagement.
C13_ConfirmedDeleteEffect ==
    [][last_op'[1] = "delete" =>
          /\ selected # <<>> /\ selected[1] < Len(tree_items)
          /\ At(tree_items, selected[1]).kind = "Host"
          /\ delete_target = <<At(tree_items, selected[1]).host_index>>
          /\ LET i == At(tree_items, selected[1]).host_index
             IN /\ i < Len(hosts)
                /\ pending_changes' = Append(pending_changes, Deleted(At(hosts, i)))
                /\ Len(hosts') = Len(hosts) - 1
                /\ \A j \in Indices(hosts') :
                       At(hosts', j) = IF j < i THEN At(hosts, j) ELSE At(hosts, j + 1)
          /\ tree_items' = ViewOf(hosts')
          /\ delete_target' = None
          /\ mode' = "ConfigManagement"]_vars

\* the second of three hosts has just been deleted
C13_MiddleHostDeleted ==
    /\ last_op[1] = "delete" /\ mode = "ConfigManagement"
    /\ Len(original_hosts) = 3 /\ Len(hosts) = 2
    /\ hosts[1] = original_hosts[1] /\ hosts[2] = original_hosts[3]
    /\ pending_changes = <<Deleted(original_hosts[2])>>

\* C14: after a confirmed delete the selection is in range: None when the
\* rebuilt tree_items is empty, as after the delete of the last remaining
\* host, and otherwise an index below Len(tree_items).
C14_SelectionInRangeAfterDelete ==
    [][last_op'[1] = "delete" =>
          IF tree_items' = <<>>
          THEN selected' = None
          ELSE selected' # <<>> /\ selected'[1] \in Indices(tree_items')]_vars

\* the last remaining host has just been deleted
C14_LastHostDeleted ==
    /\ last_op[1] = "delete"
    /\ pending_changes # <<>> /\ pending_changes[Len(pending_changes)].type = "Deleted"
    /\ hosts = <<>> /\ tree_items = <<>> /\ selected = None


(***************************************************************************)
(* The configuration file.                                                 *)
(***************************************************************************)
NineFields ==
    {"name", "hostname", "user", "port", "identity_file", "folder", "display_name",
     "description", "visible"}

\* host lists that agree in length and, host by host, in the nine fields
SameHosts(loaded, written) ==
    /\ Len(loaded) = Len(written)
    /\ \A j \in 1 .. Len(written) : \A f \in NineFields : loaded[j][f] = written[j][f]

\* C15: after a successful apply, parse_ssh_config on the text that
\* write_ssh_config wrote for hosts gives the same hosts in the same order,
\* each with equal name, hostname, user, port, identity_file, folder,
\* display_name, description and visible.
C15_PersistLoadRoundTrip ==
    (last_op[1] = "apply" /\ last_op[3].write_ok) =>
        SameHosts(parse_ssh_config(write_ssh_config(hosts)), hosts)

\* staged changes have just been applied, and the text written loads back as
\* the hosts it was written for
C15_RoundTripOfAppliedHosts ==
    /\ last_op[1] = "apply" /\ last_op[3].write_ok /\ last_op[2] >= 1
    /\ Len(hosts) >= 2
    /\ SameHosts(parse_ssh_config(write_ssh_config(hosts)), hosts)

\* every loaded configuration is the parse of its own text
LoadedConfigsAreParsed ==
    \A loaded \in LoadedConfigs : parse_ssh_config(write_ssh_config(loaded)) = loaded

(***************************************************************************)
(* C16: on every execution of `run` in which an error is returned after    *)
(* the terminal was put into raw mode, the restore step has been executed  *)
(* before the error reaches the caller.                                    *)
(***************************************************************************)
C16_RestoreBeforeErrorReturn ==
    (pc = "done" /\ raw_entered /\ returned # Some("Ok")) => restore_called

\* an error of a handler (a failed apply) is returned after the restore step
C16_HandlerErrorAfterRestore ==
    /\ pc = "done"
    /\ raw_entered
    /\ restore_called
    /\ returned = Some("Config")

(***************************************************************************)
(* Connect steps: handle_event reached terminal.suspend().  The outcomes   *)
(* of the external calls are not part of the state; a property of a        *)
(* connect step is stated for every outcome io under which Enter or Space  *)
(* takes the step.                                                         *)
(***************************************************************************)
Connects == calls' # <<>> /\ calls'[1].call = "suspend"

\* the fields of self that connect_to_selected reads, at the entry of handle_event
ConnectSelf ==
    [hosts |-> hosts, tree_items |-> tree_items, selected |-> selected,
     result |-> "Ok", calls |-> <<>>]

\* the step taken is the connect of the selected host under the outcomes io
ConnectsWith(io) ==
    LET c == connect_to_selected(ConnectSelf, io)
    IN calls' = c.calls /\ result' = c.result

IsPrefix(s, t) == Len(s) <= Len(t) /\ s = SubSeq(t, 1, Len(s))

\* suspend, ssh with the name of the selected host, resume, clear
ConnectCalls ==
    <<Call("suspend"),
      CallWith("ssh", At(hosts, Unwrap(SelectedHostIndex(Self))).name),
      Call("resume"), Call("clear")>>

\* the calls are made in order, and resume follows a successful suspend
ConnectOrder(io) ==
    /\ IsSome(SelectedHostIndex(Self))
    /\ IsPrefix(calls', ConnectCalls)
    /\ Len(calls') >= 1
    /\ io.suspend_ok => Len(calls') >= 3

SpawnErrors == {"SpawnErr"}

(***************************************************************************)
(* C17 as stated: a connect performs suspend, ssh <name>, resume, redraw   *)
(* in this order; after a successful suspend, resume is always executed;   *)
(* an exit of the child (zero, nonzero, signaled) yields success and only  *)
(* a spawn/wait failure yields an error.                                   *)
(***************************************************************************)
C17_ConnectOrdering ==
    [][Connects => \A io \in ConnectIO :
          ConnectsWith(io) =>
              /\ ConnectOrder(io)
              /\ (io.spawn \notin SpawnErrors) => (result' = "Ok" /\ calls' = ConnectCalls)
              /\ (result' # "Ok") => (io.spawn \in SpawnErrors)]_vars

(***************************************************************************)
(* C17 amended: the order and the resume guarantee hold for every outcome; *)
(* when suspend, resume and the redraw succeed, the result is Ok exactly   *)
(* when the child was spawned and waited for, whatever its exit, and a     *)
(* spawn/wait failure gives an Ssh error with no redraw; a failed terminal *)
(* call gives a Terminal error.                                            *)
(***************************************************************************)
C17_ConnectOrderingWithTerminalErrors ==
    [][Connects => \A io \in ConnectIO :
          ConnectsWith(io) =>
              /\ ConnectOrder(io)
              /\ (io.suspend_ok /\ io.resume_ok /\ io.spawn \in SpawnErrors) =>
                     (result' = "Ssh" /\ calls' = SubSeq(ConnectCalls, 1, 3))
              /\ (io.suspend_ok /\ io.resume_ok /\ io.clear_ok
                      /\ io.spawn \notin SpawnErrors) =>
                     (result' = "Ok" /\ calls' = ConnectCalls)
              /\ (~io.suspend_ok \/ ~io.resume_ok
                      \/ (io.spawn \notin SpawnErrors /\ ~io.clear_ok)) =>
                     result' = "Terminal"]_vars

\* the spawn failed after a successful suspend, and resume was executed
C17_SpawnFailedAndResumed ==
    /\ result = "Ssh"
    /\ Len(calls) = 3
    /\ calls[1].call = "suspend"
    /\ calls[2] = CallWith("ssh", db)
    /\ calls[3].call = "resume"

(***************************************************************************)
(* C18: nothing else happens during a connect.  The handler that connects  *)
(* makes no call but suspend, ssh, resume and the redraw, in one step of   *)
(* the event loop, and it leaves hosts, original_hosts, pending_changes,   *)
(* tree_items, the selection and the search query unchanged, whether the   *)
(* connect succeeds or fails.                                              *)
(***************************************************************************)
C18_ConnectChangesNothing ==
    [][Connects =>
          /\ IsPrefix(calls', ConnectCalls)
          /\ UNCHANGED <<hosts, original_hosts, pending_changes, tree_items,
                         selected, search_query, filtered_hosts>>]_vars

\* a session was opened from a filtered view and is over
C18_ConnectedFromSearch ==
    /\ calls # <<>>
    /\ calls[1].call = "suspend"
    /\ Len(calls) = 4
    /\ result = "Ok"
    /\ search_query # <<>>
    /\ Len(tree_items) < Len(hosts)

(***************************************************************************)
(* C19: original_hosts is a stable snapshot.  After the load, a step       *)
(* changes original_hosts only if it is a successful apply; search,        *)
(* navigation, folder toggle, add/edit commit, confirmed delete,           *)
(* single-edit discard, full discard, failed apply and connect leave it    *)
(* unchanged.                                                              *)
(***************************************************************************)
C19_SnapshotIsStable ==
    [][(original_hosts' # original_hosts) =>
          (last_op'[1] = "apply" /\ last_op'[3].write_ok)]_vars

\* a successful apply has replaced the loaded snapshot
C19_SnapshotReplaced ==
    /\ last_op[1] = "apply"
    /\ last_op[3].write_ok
    /\ original_hosts \notin LoadedConfigs
    /\ original_hosts = hosts
    /\ Len(original_hosts) >= 1

(***************************************************************************)
(* C20: pending_changes is append-only between decisions.  In every step   *)
(* the new pending_changes is the old one, or the old one with exactly one *)
(* entry appended at the end, or empty as the result of a successful apply *)
(* or of a full discard; entries are never reordered, modified or removed  *)
(* one by one.                                                             *)
(***************************************************************************)
C20_ChangeLogAppendOnly ==
    [][\/ pending_changes' = pending_changes
       \/ /\ Len(pending_changes') = Len(pending_changes) + 1
          /\ SubSeq(pending_changes', 1, Len(pending_changes)) = pending_changes
       \/ /\ pending_changes' = <<>>
          /\ \/ last_op'[1] = "apply" /\ last_op'[3].write_ok
             \/ last_op'[1] = "discard"]_vars

\* a second entry has just been appended behind the first
C20_SecondEntryAppended ==
    /\ Len(pending_changes) = 2
    /\ last_op[1] \in {"commit", "delete"}
    /\ last_op[2] = 1
    /\ pending_changes[1] # pending_changes[2]

(***************************************************************************)
(* C21: leaving ConfigManagement is gated on pending_changes.  In every    *)
(* reachable state in ConfigManagement, Esc and 'q' go to ReviewChanges if *)
(* pending_changes is non-empty and to Normal if it is empty, and leave    *)
(* hosts, pending_changes, tree_items and the selection unchanged.         *)
(***************************************************************************)
C21_LeavingConfigIsGated ==
    mode = "ConfigManagement" =>
        \A k \in {Key("Esc"), Char("q")} :
            LET after == handle_event(Self, k, QuietIO) IN
            /\ after.mode = IF pending_changes # <<>> THEN "ReviewChanges" ELSE "Normal"
            /\ after.hosts = hosts
            /\ after.pending_changes = pending_changes
            /\ after.tree_items = tree_items
            /\ after.selected = selected
            /\ after.result = "Ok"

\* ConfigManagement was left for the review with a deletion staged
C21_LeftForReview ==
    /\ mode = "ReviewChanges"
    /\ last_op = NoOp
    /\ review_scroll = 0
    /\ Len(pending_changes) = 1
    /\ pending_changes[1].type = "Deleted"
    /\ Len(hosts) = Len(original_hosts) - 1

(***************************************************************************)
(* The nine fields of the buffer, each with its captured original.         *)
(***************************************************************************)
FieldPairs ==
    {<<"name", "original_name">>, <<"hostname", "original_hostname">>,
     <<"user", "original_user">>, <<"port", "original_port">>,
     <<"identity_file", "original_identity_file">>,
     <<"folder", "original_folder">>,
     <<"display_name", "original_display_name">>,
     <<"description", "original_description">>,
     <<"visible", "original_visible">>}

BufferDiffers(e) == \E p \in FieldPairs : e[p[1]] # e[p[2]]

Editing == mode = "EditingHost" /\ IsSome(editing_host)

(***************************************************************************)
(* C22: Esc in EditingHost branches on has_changes.  If one of the nine    *)
(* buffer fields differs from its captured original the mode becomes       *)
(* ConfirmDiscardEdit and the buffer is kept; if all nine are equal,       *)
(* also after a character was typed and deleted again, the buffer is       *)
(* cleared and the mode becomes ConfigManagement; hosts and                *)
(* pending_changes are unchanged in both branches.                         *)
(***************************************************************************)
C22_EscBranchesOnChanges ==
    Editing =>
        LET e == Unwrap(editing_host)
            after == handle_event(Self, Key("Esc"), QuietIO)
        IN /\ BufferDiffers(e) =>
                 (after.mode = "ConfirmDiscardEdit" /\ after.editing_host = editing_host)
           /\ ~BufferDiffers(e) =>
                 (after.mode = "ConfigManagement" /\ after.editing_host = None)
           /\ after.hosts = hosts
           /\ after.pending_changes = pending_changes
           /\ \A c \in TextChars :
                 (e.current_field <= 7) =>
                     LET typed == handle_event(Self, Char(c), QuietIO)
                         erased == handle_event(typed, Key("Backspace"), QuietIO)
                     IN /\ typed.editing_host # editing_host
                        /\ erased.editing_host = editing_host
                        /\ handle_event(erased, Key("Esc"), QuietIO) = after

\* Esc was pressed on a buffer whose visible flag alone differs from its original
C22_EscOnChangedBuffer ==
    /\ mode = "ConfirmDiscardEdit"
    /\ IsSome(editing_host)
    /\ Unwrap(editing_host).visible # Unwrap(editing_host).original_visible
    /\ Unwrap(editing_host).name = Unwrap(editing_host).original_name

(***************************************************************************)
(* The diff of a Modified entry as the review describes it: the fields in  *)
(* their order, each with the text that introduces its value.              *)
(***************************************************************************)
DiffFields ==
    <<<<"folder", <<"#", " ", "@", "f", "o", "l", "d", "e", "r", ":", " ">>>>,
      <<"display_name", <<"#", " ", "@", "n", "a", "m", "e", ":", " ">>>>,
      <<"description", <<"#", " ", "@", "d", "e", "s", "c", "r", "i", "p", "t", "i", "o", "n", ":", " ">>>>,
      <<"visible", <<"#", " ", "@", "v", "i", "s", "i", "b", "l", "e", ":", " ">>>>,
      <<"hostname", <<" ", " ", "H", "o", "s", "t", "N", "a", "m", "e", " ">>>>,
      <<"user", <<" ", " ", "U", "s", "e", "r", " ">>>>,
      <<"port", <<" ", " ", "P", "o", "r", "t", " ">>>>,
      <<"identity_file", <<" ", " ", "I", "d", "e", "n", "t", "i", "t", "y", "F", "i", "l", "e", " ">>>>>>

\* the value of field f of host h as the diff shows it; None when there is none
Shown(h, f) ==
    IF f = "visible" THEN Some(FormatBool(h.visible)) ELSE h[f]

\* the "-" line and the "+" line of the k-th field, when old and new differ in it
FieldDiff(old, new, k) ==
    LET f == DiffFields[k][1]
        label == DiffFields[k][2]
    IN IF old[f] = new[f] THEN <<>>
       ELSE (IF IsSome(Shown(old, f))
             THEN <<<<"-", " ">> \o label \o Unwrap(Shown(old, f))>> ELSE <<>>)
            \o (IF IsSome(Shown(new, f))
                THEN <<<<"+", " ">> \o label \o Unwrap(Shown(new, f))>> ELSE <<>>)

RECURSIVE FieldDiffsFrom(_, _, _)
FieldDiffsFrom(old, new, k) ==
    IF k > Len(DiffFields) THEN <<>>
    ELSE FieldDiff(old, new, k) \o FieldDiffsFrom(old, new, k + 1)

ShowsADifference(lines) ==
    \E i \in 1 .. Len(lines) : lines[i] # <<>> /\ lines[i][1] \in {"-", "+"}

ModifiedEntries == {i \in 1 .. Len(pending_changes) : pending_changes[i].type = "Modified"}

(***************************************************************************)
(* C23: the diff of a Modified entry is the header "~ Host <name>", then   *)
(* for each field in which old and new differ, and for no other, a "-"     *)
(* line with the old value and a "+" line with the new value, in the order *)
(* folder, display_name, description, visible, hostname, user, port,       *)
(* identity_file; every difference between old and new is visible in the   *)
(* diff.                                                                   *)
(***************************************************************************)
C23_ModifiedDiff ==
    \A i \in ModifiedEntries :
        LET old == pending_changes[i].old
            new == pending_changes[i].new
            lines == DiffOfChange(pending_changes[i])
        IN /\ lines = <<<<"~", " ", "H", "o", "s", "t", " ">> \o old.name>>
                        \o FieldDiffsFrom(old, new, 1) \o <<<<>>>>
           /\ (old # new) => ShowsADifference(lines)

\* a change of folder is staged and the review shows its "-" and "+" lines
C23_FolderChangeShown ==
    /\ Len(pending_changes) = 1
    /\ pending_changes[1].type = "Modified"
    /\ pending_changes[1].old.folder # pending_changes[1].new.folder
    /\ IsSome(pending_changes[1].old.folder)
    /\ Len(generate_diff_lines(Self)) = 4
    /\ generate_diff_lines(Self)[2][1] = "-"
    /\ generate_diff_lines(Self)[3][1] = "+"

(***************************************************************************)
(* The view a query asks for: host h matches q when its name, hostname,    *)
(* user, display_name, description or folder holds q, case ignored.        *)
(***************************************************************************)
HostMatches(h, q) ==
    LET texts == {h.name} \cup {h[f][1] : f \in {g \in {"hostname", "user", "display_name",
                                                        "description", "folder"} : h[g] # <<>>}}
    IN \E text \in texts : Contains(ToLowercase(text), ToLowercase(q))

\* t is the list, in hosts order, of one Host row per host matching q
IsMatchList(t, q) ==
    /\ \A p \in 1 .. Len(t) : t[p].kind = "Host" /\ t[p].host_index \in Indices(hosts)
    /\ \A i \in Indices(hosts) :
          Cardinality(RowsOfHost(t, i)) = IF HostMatches(At(hosts, i), q) THEN 1 ELSE 0
    /\ \A p, r \in 1 .. Len(t) : p < r => t[p].host_index < t[r].host_index

\* the view and the selection are what the query q asks for
IsViewFor(after, q) ==
    /\ after.search_query = q
    /\ IF q = <<>> THEN IsOrderedTree(after.tree_items)
                   ELSE IsMatchList(after.tree_items, q)
    /\ after.selected = IF after.tree_items # <<>> THEN Some(0) ELSE None
    /\ after.hosts = hosts
    /\ after.mode = "Search"

Fresh(a) == [a EXCEPT !.result = "Ok", !.calls = <<>>]

\* the selected row (0-based) when there is one in tree_items, else None
SelectedRow ==
    IF selected # <<>> /\ selected[1] < Len(tree_items) THEN selected ELSE <<>>

(***************************************************************************)
(* C25: leaving Search.  Esc sets the mode to Normal and leaves the query, *)
(* tree_items and the selection as they are, and the filtered view stays   *)
(* in effect in Normal and in ConfigManagement; Enter sets the mode to     *)
(* Normal and does to the current selection what Enter does in Normal: it  *)
(* toggles a Folder row, connects on a Host row, and does nothing when     *)
(* there is no selection.                                                  *)
(***************************************************************************)
C25_LeavingSearch ==
    mode = "Search" =>
        LET left == handle_event(Self, Key("Esc"), QuietIO)
            config == handle_event(left, Char("e"), QuietIO)
        IN /\ left = Fresh([Self EXCEPT !.mode = "Normal"])
           /\ config.mode = "ConfigManagement"
           /\ config.search_query = search_query
           /\ config.tree_items = tree_items
           /\ config.selected = selected
           /\ \A io \in ConnectIO :
                 LET entered == handle_event(Self, Key("Enter"), io) IN
                 /\ entered = handle_event([Self EXCEPT !.mode = "Normal"], Key("Enter"), io)
                 /\ entered.mode = "Normal"
                 /\ entered.search_query = search_query
                 /\ SelectedRow = <<>> => entered = Fresh([Self EXCEPT !.mode = "Normal"])
                 /\ (SelectedRow # <<>> /\ At(tree_items, SelectedRow[1]).kind = "Folder") =>
                       /\ entered.calls = <<>>
                       /\ entered.tree_items # tree_items
                       /\ At(entered.tree_items, SelectedRow[1]).expanded
                              = ~At(tree_items, SelectedRow[1]).expanded
                 /\ (SelectedRow # <<>> /\ At(tree_items, SelectedRow[1]).kind = "Host") =>
                       /\ entered.calls # <<>>
                       /\ entered.calls[1] = Call("suspend")
                       /\ entered.tree_items = tree_items

\* the view filtered in Search is the view of ConfigManagement
C25_FilteredViewInConfig ==
    /\ mode = "ConfigManagement"
    /\ search_query # <<>>
    /\ tree_items # <<>>
    /\ Len(tree_items) < Len(hosts)
    /\ pending_changes = <<>>

(***************************************************************************)
(* Folder rows.                                                            *)
(***************************************************************************)
OnFolderRow == SelectedRow # <<>> /\ At(tree_items, SelectedRow[1]).kind = "Folder"

\* the expansion flag of every Folder row of tree t, by folder name
FolderFlags(t) == {<<t[p].name, t[p].expanded>> : p \in {r \in 1 .. Len(t) : t[r].kind = "Folder"}}

\* the keys that activate the selected row in mode m
ActivateKeys(m) ==
    CASE m = "Normal" -> {Key("Enter"), Char(" ")}
      [] m = "Search" -> {Key("Enter")}
      [] OTHER -> {}

\* `after` is the App with the selected folder flipped, no other folder touched,
\* nothing called and nothing failed; new_mode is the mode it is in
FlipsSelectedFolder(after, new_mode) ==
    LET F == At(tree_items, SelectedRow[1]) IN
    /\ after = [Fresh(Self) EXCEPT !.tree_items = after.tree_items, !.mode = new_mode]
    /\ FolderFlags(after.tree_items)
          = (FolderFlags(tree_items) \ {<<F.name, F.expanded>>}) \cup {<<F.name, ~F.expanded>>}
    /\ RowsOfFolder(after.tree_items, F.name) = {SelectedRow[1] + 1}

\* 'e' and 'd' in ConfigManagement on a Folder row change nothing
ConfigKeysIgnoreFolder ==
    (mode = "ConfigManagement" /\ OnFolderRow) =>
        \A k \in {Char("e"), Char("d")} :
            handle_event(Self, k, QuietIO) = Fresh(Self)

(***************************************************************************)
(* C26 as stated: with a Folder row selected, Enter/Space in Normal and    *)
(* Enter in Search flip that folder's expansion only, never launch ssh,    *)
(* never return an error and do not change the mode; 'e' and 'd' in        *)
(* ConfigManagement are no-ops.                                            *)
(***************************************************************************)
C26_FolderRowsInert ==
    /\ OnFolderRow =>
          \A k \in ActivateKeys(mode) : \A io \in ConnectIO :
              FlipsSelectedFolder(handle_event(Self, k, io), mode)
    /\ ConfigKeysIgnoreFolder

(***************************************************************************)
(* C26 amended: with a Folder row selected, Enter/Space in Normal and      *)
(* Enter in Search flip that folder's expansion only, never launch ssh and *)
(* never return an error; Normal stays Normal and Search becomes Normal;   *)
(* 'e' and 'd' in ConfigManagement are no-ops.                             *)
(***************************************************************************)
C26_FolderRowsInertEndingInNormal ==
    /\ OnFolderRow =>
          \A k \in ActivateKeys(mode) : \A io \in ConnectIO :
              FlipsSelectedFolder(handle_event(Self, k, io), "Normal")
    /\ ConfigKeysIgnoreFolder

\* the selected Folder row has been collapsed: no call was made, nothing failed
C26_SelectedFolderCollapsed ==
    /\ mode = "Normal"
    /\ OnFolderRow
    /\ ~At(tree_items, SelectedRow[1]).expanded
    /\ calls = <<>>
    /\ result = "Ok"
    /\ \A i \in Indices(hosts) : RowsOfHost(tree_items, i) = {} \/ At(hosts, i).folder = <<>>
    /\ Len(tree_items) = 2

\* the keys that decline a confirmation
DeclineKeys == {Char("n"), Char("N"), Key("Esc")}

(***************************************************************************)
(* C27: declining a confirmation mutates nothing.  'n', 'N' and Esc in     *)
(* ConfirmDelete return to ConfigManagement, and in ConfirmDiscardEdit to  *)
(* EditingHost; hosts, pending_changes, tree_items, the selection and, for *)
(* ConfirmDiscardEdit, every buffer field, every captured original and the *)
(* active field are as they were before the dialog was opened.             *)
(***************************************************************************)
C27_DecliningMutatesNothing ==
    /\ mode = "ConfirmDelete" =>
          \A k \in DeclineKeys :
              handle_event(Self, k, QuietIO)
                  = Fresh([Self EXCEPT !.mode = "ConfigManagement", !.delete_target = None])
    /\ mode = "ConfirmDiscardEdit" =>
          \A k \in DeclineKeys :
              handle_event(Self, k, QuietIO) = Fresh([Self EXCEPT !.mode = "EditingHost"])
    \* the dialog opened from here and declined leads back here
    /\ (mode = "ConfigManagement" /\ SelectedHostIndex(Self) # <<>>) =>
          LET opened == handle_event(Self, Char("d"), QuietIO) IN
          /\ opened.mode = "ConfirmDelete"
          /\ \A k \in DeclineKeys : handle_event(opened, k, QuietIO) = Fresh(Self)
    /\ (Editing /\ BufferDiffers(Unwrap(editing_host))) =>
          LET opened == handle_event(Self, Key("Esc"), QuietIO) IN
          /\ opened.mode = "ConfirmDiscardEdit"
          /\ \A k \in DeclineKeys : handle_event(opened, k, QuietIO) = Fresh(Self)

\* the discard dialog is open on an edited buffer whose active field is not the first
C27_DiscardDialogOpen ==
    /\ mode = "ConfirmDiscardEdit"
    /\ IsSome(editing_host)
    /\ Unwrap(editing_host).current_field = 5
    /\ Unwrap(editing_host).folder # Unwrap(editing_host).original_folder
    /\ IsSome(editing_host_index)

\* the App after key k was pressed n times
RECURSIVE Pressed(_, _, _)
Pressed(a, k, n) ==
    IF n = 0 THEN a ELSE Pressed(handle_event(a, k, QuietIO), k, n - 1)

\* the App of the state with the active field moved to field i, nothing else changed
WithField(i) ==
    Fresh([Self EXCEPT !.editing_host = Some([Unwrap(editing_host) EXCEPT !.current_field = i])])

ForwardKeys == {Key("Tab"), Key("Down")}
BackwardKeys == {Key("BackTab"), Key("Up")}

(***************************************************************************)
(* C28: field cycling wraps in both directions over exactly nine fields.   *)
(* The active field is always in 0..8; Tab/Down take i to (i+1) mod 9 and  *)
(* BackTab/Up take i to (i-1) mod 9; Tab then BackTab, and BackTab then    *)
(* Tab, are the identity; nine Tabs, and nine BackTabs, return to the      *)
(* starting field; cycling never changes a buffer field.                   *)
(***************************************************************************)
C28_FieldCycling ==
    Editing =>
        LET i == Unwrap(editing_host).current_field IN
        /\ i \in 0 .. 8
        /\ \A k \in ForwardKeys : handle_event(Self, k, QuietIO) = WithField((i + 1) % 9)
        /\ \A k \in BackwardKeys : handle_event(Self, k, QuietIO) = WithField((i + 8) % 9)
        /\ \A f \in ForwardKeys : \A b \in BackwardKeys :
              /\ handle_event(handle_event(Self, f, QuietIO), b, QuietIO) = Fresh(Self)
              /\ handle_event(handle_event(Self, b, QuietIO), f, QuietIO) = Fresh(Self)
        /\ \A k \in ForwardKeys \cup BackwardKeys :
              /\ Pressed(Self, k, 9) = Fresh(Self)
              /\ \A n \in 1 .. 8 : Pressed(Self, k, n) # Fresh(Self)

\* the fifth field of an edited host is active: reached by cycling only
C28_FifthFieldActive ==
    /\ Editing
    /\ Unwrap(editing_host).current_field = 4
    /\ IsSome(editing_host_index)
    /\ ~BufferDiffers(Unwrap(editing_host))

\* the App of the state with buffer e, nothing else changed
WithBuffer(e) == Fresh([Self EXCEPT !.editing_host = Some(e)])

\* characters pressed on the visible field, and characters typed into a text
KeysOnVisible == VisibleChars \cup {"y", "n", "T", "F"}
KeysOnText == TextChars \cup {"t", "n", "Y"}

\* a character or a space typed on a text field is appended to that field only,
\* and Backspace on the visible field changes nothing
TextFieldsTakeText ==
    Editing =>
        LET e == Unwrap(editing_host) IN
        /\ (e.current_field <= 7) =>
              \A c \in KeysOnText :
                  handle_event(Self, Char(c), QuietIO)
                      = WithBuffer([e EXCEPT ![TextFields[e.current_field + 1]] = Append(@, c)])
        /\ (e.current_field = 8) =>
              handle_event(Self, Key("Backspace"), QuietIO) = Fresh(Self)

(***************************************************************************)
(* C29 as stated: on the visible field 't'/'y' set visible to true,        *)
(* 'f'/'n' set it to false, space negates it, and Backspace and every      *)
(* other character leave it unchanged; no key on the visible field changes *)
(* a text field, and a character or space typed on a text field appends to *)
(* that field only and never changes visible.                              *)
(***************************************************************************)
C29_VisibleFieldInput ==
    /\ TextFieldsTakeText
    /\ (Editing /\ Unwrap(editing_host).current_field = 8) =>
          LET e == Unwrap(editing_host) IN
          \A c \in KeysOnVisible :
              handle_event(Self, Char(c), QuietIO)
                  = WithBuffer([e EXCEPT !.visible =
                                   CASE c \in {"t", "y"} -> TRUE
                                     [] c \in {"f", "n"} -> FALSE
                                     [] c = " " -> ~e.visible
                                     [] OTHER -> e.visible])

(***************************************************************************)
(* C29 amended: on the visible field the letters t and y, in either case,  *)
(* set visible to true, f and n, in either case, set it to false, space    *)
(* negates it, and Backspace and every other character leave it unchanged; *)
(* the rest as stated.                                                     *)
(***************************************************************************)
C29_VisibleFieldInputAnyCase ==
    /\ TextFieldsTakeText
    /\ (Editing /\ Unwrap(editing_host).current_field = 8) =>
          LET e == Unwrap(editing_host) IN
          \A c \in KeysOnVisible :
              handle_event(Self, Char(c), QuietIO)
                  = WithBuffer([e EXCEPT !.visible =
                                   CASE c \in {"t", "y", "T", "Y"} -> TRUE
                                     [] c \in {"f", "n", "F", "N"} -> FALSE
                                     [] c = " " -> ~e.visible
                                     [] OTHER -> e.visible])

\* the visible flag of an edited host was switched off on the visible field
C29_VisibleSwitchedOff ==
    /\ Editing
    /\ Unwrap(editing_host).current_field = 8
    /\ ~Unwrap(editing_host).visible
    /\ Unwrap(editing_host).original_visible
    /\ \A p \in FieldPairs \ {<<"visible", "original_visible">>} :
          Unwrap(editing_host)[p[1]] = Unwrap(editing_host)[p[2]]

\* the App after the keys of ks were pressed one after the other
RECURSIVE PressedAll(_, _)
PressedAll(a, ks) ==
    IF ks = <<>> THEN a ELSE PressedAll(handle_event(a, Head(ks), QuietIO), Tail(ks))

(***************************************************************************)
(* C30: backing out of the review keeps everything staged.  Esc in         *)
(* ReviewChanges sets the mode to ConfigManagement and leaves hosts,       *)
(* original_hosts and pending_changes unchanged; a host deleted after it   *)
(* is staged behind the earlier entries, and the next review shows the     *)
(* lines of the earlier entries followed by the lines of the new one.      *)
(***************************************************************************)
C30_BackingOutKeepsStaged ==
    mode = "ReviewChanges" =>
        LET back == handle_event(Self, Key("Esc"), QuietIO)
            again == PressedAll(back, <<Char("d"), Char("y"), Key("Esc")>>)
        IN /\ back = Fresh([Self EXCEPT !.mode = "ConfigManagement", !.review_scroll = 0])
           /\ SelectedHostIndex(back) # <<>> =>
                 LET deleted == Deleted(At(hosts, SelectedHostIndex(back)[1])) IN
                 /\ again.mode = "ReviewChanges"
                 /\ again.original_hosts = original_hosts
                 /\ again.pending_changes = pending_changes \o <<deleted>>
                 /\ generate_diff_lines(again)
                        = generate_diff_lines(Self) \o DiffOfChange(deleted)

\* a review of two entries, the deletion staged behind the edit (also the state
\* of a second review, entered after the first one was left with Esc)
C30_SecondReview ==
    /\ mode = "ReviewChanges"
    /\ Len(pending_changes) = 2
    /\ pending_changes[1].type = "Modified"
    /\ pending_changes[2].type = "Deleted"
    /\ Len(generate_diff_lines(Self)) >= 4

(***************************************************************************)
(* C31: review scrolling is clamped when rendering.  For any number of     *)
(* Down/PageDown presses in ReviewChanges the window of diff lines taken   *)
(* at render time lies within the diff: its start offset exceeds neither   *)
(* its end offset nor the number of diff lines, so rendering cannot fail.  *)
(***************************************************************************)
C31_ScrollClampedAtRender ==
    mode = "ReviewChanges" =>
        \A h \in ContentHeights :
            /\ visible_window(Self, h).start_line <= visible_window(Self, h).end_line
            /\ visible_window(Self, h).start_line <= Len(generate_diff_lines(Self))
            /\ ~slice_panics(Self, h)

\* the review is scrolled down by one line and the window lies within the diff
C31_ScrolledWithinDiff ==
    /\ mode = "ReviewChanges"
    /\ review_scroll = 1
    /\ Len(generate_diff_lines(Self)) >= 2
    /\ \A h \in ContentHeights : ~slice_panics(Self, h)

\* the modes in which Up and Down move the selection
NavigatingModes == {"Normal", "ConfigManagement"}

(***************************************************************************)
(* C32: selection validity.  In every reachable state the selection is     *)
(* none exactly when tree_items is empty, and otherwise it is an index     *)
(* strictly less than the number of rows.  Down on the last row selects    *)
(* row 0 and Up on row 0 selects the last row, so navigation keeps it.     *)
(***************************************************************************)
C32_SelectionValid ==
    /\ (selected = <<>>) <=> (tree_items = <<>>)
    /\ selected # <<>> => selected[1] < Len(tree_items)
    /\ (mode \in NavigatingModes /\ selected # <<>>) =>
          /\ selected[1] = Len(tree_items) - 1 =>
                handle_event(Self, Key("Down"), QuietIO).selected = <<0>>
          /\ selected[1] = 0 =>
                handle_event(Self, Key("Up"), QuietIO).selected = <<Len(tree_items) - 1>>
          /\ \A k \in NavKeys :
                LET s == handle_event(Self, k, QuietIO).selected IN
                s # <<>> /\ s[1] < Len(tree_items)

\* the last of several rows is selected after a folder was collapsed
C32_LastRowSelectedAfterCollapse ==
    /\ mode \in NavigatingModes
    /\ Len(tree_items) >= 2
    /\ selected = <<Len(tree_items) - 1>>
    /\ \E r \in 1 .. Len(tree_items) : tree_items[r].kind = "Folder" /\ ~tree_items[r].expanded

\* the Host rows and the Folder rows (1-based positions) of tree_items
HostRowsOfTree == {p \in 1 .. Len(tree_items) : tree_items[p].kind = "Host"}
FolderPositions == {p \in 1 .. Len(tree_items) : tree_items[p].kind = "Folder"}

\* the indices a children list holds
ChildrenOf(p) == {At(tree_items[p].children_indices, j) : j \in Indices(tree_items[p].children_indices)}

(***************************************************************************)
(* C33: tree indices refer to existing hosts.  In every reachable state    *)
(* every Host row's host_index and every index of a Folder row's children  *)
(* list is below the number of hosts, no host index occurs in two Host     *)
(* rows, and every child of a Folder row is a host whose folder is the     *)
(* row's name; so it is after deletes shift indices and after a discard.   *)
(***************************************************************************)
C33_TreeIndicesExist ==
    /\ \A p \in HostRowsOfTree : tree_items[p].host_index \in Indices(hosts)
    /\ \A p, q \in HostRowsOfTree : tree_items[p].host_index = tree_items[q].host_index => p = q
    /\ \A p \in FolderPositions : \A c \in ChildrenOf(p) :
          /\ c \in Indices(hosts)
          /\ At(hosts, c).folder = <<tree_items[p].name>>

\* a host of a folder was deleted while another member and a later host remain
C33_DeleteShiftedIndices ==
    /\ last_op[1] = "delete"
    /\ Len(hosts) < Len(original_hosts)
    /\ \E p \in FolderPositions : ChildrenOf(p) # {}
    /\ \E p \in HostRowsOfTree : tree_items[p].host_index = Len(hosts) - 1

\* rows p+1 .. p+n of tree t are Host rows showing exactly the hosts of set c,
\* each once, by ascending effective name
MemberRowsFollow(t, p, c) ==
    LET n == Cardinality(c) IN
    /\ p + n <= Len(t)
    /\ \A q \in p + 1 .. p + n : t[q].kind = "Host" /\ t[q].host_index \in c
    /\ \A i \in c : \E q \in p + 1 .. p + n : t[q].host_index = i
    /\ \A q \in p + 1 .. p + n - 1 :
          StrLeq(EffectiveName(At(hosts, t[q].host_index)),
                 EffectiveName(At(hosts, t[q + 1].host_index)))

(***************************************************************************)
(* C34: folder flag and rows agree.  In every reachable state, for every   *)
(* Folder row at position r with children list c: if it is expanded then   *)
(* rows r+1 .. r+length(c) are the Host rows of the members of c in        *)
(* display-name order, and if it is collapsed then no member of c is shown *)
(* in a Host row; collapsing removes that folder's member rows and no      *)
(* other row.                                                              *)
(***************************************************************************)
C34_FolderFlagAndRowsAgree ==
    \A p \in FolderPositions :
        LET c == ChildrenOf(p)
            n == Len(tree_items[p].children_indices)
        IN /\ Cardinality(c) = n
           /\ IF tree_items[p].expanded
              THEN /\ MemberRowsFollow(tree_items, p, c)
                   /\ LET collapsed == toggle_folder_expanded(Self, p - 1).tree_items IN
                      /\ Len(collapsed) = Len(tree_items) - n
                      /\ \A q \in 1 .. Len(collapsed) :
                            collapsed[q] = IF q < p THEN tree_items[q]
                                           ELSE IF q = p THEN [tree_items[p] EXCEPT !.expanded = FALSE]
                                           ELSE tree_items[q + n]
              ELSE \A q \in HostRowsOfTree : tree_items[q].host_index \notin c

\* a folder of two members is collapsed and a host outside it is still shown
C34_CollapsedBesideOtherHost ==
    /\ \E p \in FolderPositions :
          /\ ~tree_items[p].expanded
          /\ Cardinality(ChildrenOf(p)) = 2
    /\ HostRowsOfTree # {}

\* nothing is staged: the log is empty and hosts is the snapshot
NothingStaged == pending_changes = <<>> /\ hosts = original_hosts

\* the handler that ran last launched ssh
LaunchedSsh == \E i \in 1 .. Len(calls) : calls[i].call = "ssh"

(***************************************************************************)
(* C35: no staged change escapes review.  In every reachable state whose   *)
(* mode is Normal, Search or ShowVersion the log of pending changes is     *)
(* empty and hosts equals original_hosts; so the program never quits and   *)
(* never launches ssh while changes are staged and undecided.              *)
(***************************************************************************)
C35_NoStagedChangeEscapesReview ==
    /\ mode \in {"Normal", "Search", "ShowVersion"} => NothingStaged
    /\ should_quit => NothingStaged
    /\ LaunchedSsh => NothingStaged
    /\ \A k \in {Char("q"), Key("Enter"), Char(" ")} : \A io \in ConnectIO :
          LET after == handle_event(Fresh(Self), k, io) IN
          (after.should_quit \/ \E i \in 1 .. Len(after.calls) : after.calls[i].call \in {"suspend", "ssh"}) =>
              mode \in {"Normal", "Search"} /\ NothingStaged

\* Normal is entered from the review, the staged changes having been decided
C35_DecidedThenNormal ==
    /\ mode = "Normal"
    /\ last_op[1] \in {"apply", "discard"}
    /\ last_op[2] > 0
    /\ NothingStaged

\* the number of entries of type ty in the log cs
RECURSIVE CountOfType(_, _)
CountOfType(cs, ty) ==
    IF cs = <<>> THEN 0
    ELSE (IF Head(cs).type = ty THEN 1 ELSE 0) + CountOfType(Tail(cs), ty)

(***************************************************************************)
(* C36: the host count is accounted for by the log.  In every reachable    *)
(* state the number of hosts is the number of hosts of the snapshot plus   *)
(* the number of Added entries minus the number of Deleted entries, and an *)
(* empty log implies hosts equals original_hosts.                          *)
(***************************************************************************)
C36_HostCountAccounted ==
    /\ Len(hosts) = Len(original_hosts) + CountOfType(pending_changes, "Added")
                                        - CountOfType(pending_changes, "Deleted")
    /\ pending_changes = <<>> => hosts = original_hosts

\* a host was added to a loaded configuration: one Added entry, one host more
C36_OneHostAdded ==
    /\ CountOfType(pending_changes, "Added") = 1
    /\ CountOfType(pending_changes, "Deleted") = 0
    /\ original_hosts # <<>>
    /\ Len(hosts) = Len(original_hosts) + 1

\* the keys that confirm the discard of an edit
DiscardEditKeys == {Char("y"), Char("Y")}

(***************************************************************************)
(* C37: confirming an edit discard never touches staged state.  In every   *)
(* reachable state current_edit_change_index is unset; 'y' or 'Y' in       *)
(* ConfirmDiscardEdit leaves hosts and the log of pending changes exactly  *)
(* unchanged, clears the edit buffer and the target index and sets the     *)
(* mode to ConfigManagement, and changes nothing else.                     *)
(***************************************************************************)
C37_EditDiscardKeepsStaged ==
    /\ current_edit_change_index = <<>>
    /\ mode = "ConfirmDiscardEdit" =>
          \A k \in DiscardEditKeys :
              handle_event(Fresh(Self), k, QuietIO) =
                  [Fresh(Self) EXCEPT !.editing_host = None,
                                      !.editing_host_index = None,
                                      !.mode = "ConfigManagement"]
    \* from an open buffer: a character, Esc, then the confirmation
    /\ mode = "EditingHost" =>
          \A k \in DiscardEditKeys :
              LET asked == PressedAll(Fresh(Self), <<Char("x"), Key("Esc")>>)
                  after == handle_event(asked, k, QuietIO)
              IN /\ asked.mode \in {"ConfirmDiscardEdit", "ConfigManagement"}
                 /\ after.hosts = hosts
                 /\ after.pending_changes = pending_changes
                 /\ after.original_hosts = original_hosts
                 /\ after.editing_host = <<>>
                 /\ after.editing_host_index = <<>>
                 /\ after.mode = "ConfigManagement"

\* the discard of an edit was confirmed over a loaded configuration
C37_EditDiscardConfirmed ==
    /\ last_op[1] = "discard_edit"
    /\ mode = "ConfigManagement"
    /\ editing_host = <<>>
    /\ hosts # <<>>

(***************************************************************************)
(* C38: transient targets match the mode.  In every reachable state the    *)
(* edit buffer exists exactly when the mode is EditingHost or              *)
(* ConfirmDiscardEdit, and delete_target is set exactly when the mode is   *)
(* ConfirmDelete; an edit target index or delete_target that is set is     *)
(* below the number of hosts and is the index of the host of the selected  *)
(* row, the one selected when 'e' or 'd' was pressed.                      *)
(***************************************************************************)
C38_TargetsMatchMode ==
    /\ (editing_host # <<>>) <=> (mode \in {"EditingHost", "ConfirmDiscardEdit"})
    /\ (delete_target # <<>>) <=> (mode = "ConfirmDelete")
    /\ editing_host_index # <<>> =>
          /\ editing_host # <<>>
          /\ editing_host_index[1] < Len(hosts)
          /\ editing_host_index = SelectedHostIndex(Self)
    /\ delete_target # <<>> =>
          /\ delete_target[1] < Len(hosts)
          /\ delete_target = SelectedHostIndex(Self)
    \* 'e' and 'd' take the host of the selected row, or open nothing
    /\ mode = "ConfigManagement" =>
          /\ LET opened == handle_event(Fresh(Self), Char("e"), QuietIO) IN
             IF IsSome(SelectedHostIndex(Self))
             THEN opened.editing_host_index = SelectedHostIndex(Self) /\ opened.mode = "EditingHost"
             ELSE opened = Fresh(Self)
          /\ LET asked == handle_event(Fresh(Self), Char("d"), QuietIO) IN
             IF IsSome(SelectedHostIndex(Self))
             THEN asked.delete_target = SelectedHostIndex(Self) /\ asked.mode = "ConfirmDelete"
             ELSE asked = Fresh(Self)

\* the deletion of a host that is not the first is awaiting confirmation,
\* a host having been deleted before
C38_SecondDeleteAsked ==
    /\ mode = "ConfirmDelete"
    /\ delete_target # <<>>
    /\ delete_target[1] > 0
    /\ Len(hosts) < Len(original_hosts)

(***************************************************************************)
(* C39: ReviewChanges always has something to review.  In every reachable  *)
(* state whose mode is ReviewChanges the log of pending changes is not     *)
(* empty, and review_scroll is 0 in every state whose mode is not          *)
(* ReviewChanges.                                                          *)
(***************************************************************************)
C39_ReviewHasChanges ==
    /\ mode = "ReviewChanges" => pending_changes # <<>>
    /\ mode # "ReviewChanges" => review_scroll = 0
    \* every key that leaves the review leaves with the scroll reset
    /\ mode = "ReviewChanges" =>
          \A k \in ConfirmKeys \cup NavKeys \cup {Key("PageDown"), Key("PageUp")} :
              \A io \in WriteIO :
                  LET after == handle_event(Fresh(Self), k, io) IN
                  IF after.mode = "ReviewChanges"
                  THEN after.pending_changes # <<>>
                  ELSE after.review_scroll = 0

\* a scrolled review whose write failed: still in review, changes still staged
C39_WriteFailedInScrolledReview ==
    /\ mode = "ReviewChanges"
    /\ result = "Config"
    /\ review_scroll > 0
    /\ pending_changes # <<>>

\* the state after 'e' and Enter, pressed from the state as it is
EditedAndCommitted == PressedAll(Fresh(Self), <<Char("e"), Key("Enter")>>)

(***************************************************************************)
(* C40: an edit commit changes only the nine editable fields.  For every   *)
(* host, opening it with 'e' in ConfigManagement and committing with Enter *)
(* leaves the other_options of that host equal to what they were; the     *)
(* buffer being unmodified, hosts is left unchanged.                       *)
(***************************************************************************)
C40_CommitKeepsOtherOptions ==
    (mode = "ConfigManagement" /\ IsSome(SelectedHostIndex(Self))) =>
        LET i == Unwrap(SelectedHostIndex(Self)) IN
        /\ Len(EditedAndCommitted.hosts) = Len(hosts)
        /\ At(EditedAndCommitted.hosts, i).other_options = At(hosts, i).other_options
        /\ EditedAndCommitted.hosts = hosts

\* an unmodified buffer was committed and the host is what it was
C40_UnmodifiedCommitKeptHost ==
    /\ last_op[1] = "commit"
    /\ mode = "ConfigManagement"
    /\ pending_changes # <<>>
    /\ pending_changes[Len(pending_changes)].type = "Modified"
    /\ pending_changes[Len(pending_changes)].old = pending_changes[Len(pending_changes)].new
    /\ hosts = original_hosts

=============================================================================
